---- MODULE Spec2Model ----
\* Road network traffic simulation (Python/Road_network_simulation/modules):
\* Car, Road, Intersection and MapManager, and the network generator
\* (AsymmetricRoadNetwork, CustomRoadNetwork and RandomRoadNetwork).
\*
\* Lengths, positions and speeds are fixed-point numbers in tenths of a
\* lattice unit: the node (12, 0) is <<120, 0>>, clearance 6 is 60 and a car
\* speed of 0.8 is 8.  Probabilities and random draws are in tenths too.
\* In the running engine every vector whose norm is taken lies along one
\* axis, so the Euclidean norm is the absolute value of its non-zero
\* coordinate; the constructors, which are also given diagonal segments,
\* compare squared norms.
EXTENDS Integers, Sequences, FiniteSets, TLC

VARIABLES
    roads,             \* MapManager.roads: the Road objects, each with its deque of cars
    generation_count,  \* Car.generation_count: the class-wide identifier counter
    moved,             \* history: the record of every car.move of the last move_cars call
    car_positions,     \* the caller's list update_car fills with positions
    car_colors,        \* the caller's list update_car fills with colours
    road_network,      \* the AsymmetricRoadNetwork object: outgoing, incoming and the gates
    added,             \* history: the segments _add_segment accepted, and whether a call raised
    call               \* which specification's operation ran last

vars == <<roads, generation_count, moved, car_positions, car_colors, road_network, added, call>>

\* The state of the traffic engine and the state of the network generator.
engine == <<roads, generation_count, moved, car_positions, car_colors>>
generator == <<road_network, added>>

\* ------------------------------------------------------------------ bounds
\* Cars created in one run (caps Car.generation_count).
MaxCars == 2

\* Segments that _add_segment accepts in one run.
MaxSegments == 5

\* Segments in the list passed to _check_adjacent_overlap.
MaxList == 3
\* Segments in each of the two lists passed to _check_intersections.
MaxLines == 2

\* ------------------------------------------------------- program constants
\* MapManager.__init__ rejects a clearance below 6.
MinClearance == 60
\* The clearance the engine is constructed with (the default, 6).
clearance == 60
\* The spawn probability the engine is constructed with (0.5).
probability == 5

\* Car.__init__: random.uniform(0.7, 1.3); the speeds drawn in the model.
Speeds == {8, 12}
\* random.random() lies in [0, 1); the draws used in the model.
Draws == {5, 9}
\* Car.__init__: random.choices(range(256), k=3); the colours drawn in the
\* model.
Colors == {1, 2}

\* ---------------------------------------------------------------- vectors
Abs(x) == IF x < 0 THEN -x ELSE x

\* np.linalg.norm of an axis-aligned vector.
Norm(v) == Abs(v[1]) + Abs(v[2])

Sub(a, b) == <<a[1] - b[1], a[2] - b[2]>>
Add(a, b) == <<a[1] + b[1], a[2] + b[2]>>
Mul(k, v) == <<k * v[1], k * v[2]>>

\* The element of a one-element set (used to evaluate a value once).
Only(S) == CHOOSE x \in S : TRUE

Min(a, b) == IF a <= b THEN a ELSE b
Max(a, b) == IF a >= b THEN a ELSE b

\* ---------------------------------------------------------------- network
\* The outgoing mapping of two validated networks, as the dict built by
\* _add_segment (key order is insertion order).
\* Two entry roads merging into one exit road:
\*   (-12,0)->(0,0), (0,-12)->(0,0), (0,0)->(12,0)
merge_network ==
    << << <<-120, 0>>, << << <<1, 0>>, <<0, 0>> >> >> >>,
       << <<0, 0>>,    << << <<1, 0>>, <<120, 0>> >> >> >>,
       << <<0, -120>>, << << <<0, 1>>, <<0, 0>> >> >> >>,
       << <<120, 0>>,  << >> >> >>

\* One entry road forking into two exit roads:
\*   (-12,0)->(0,0), (0,0)->(12,0), (0,0)->(0,12)
fork_network ==
    << << <<-120, 0>>, << << <<1, 0>>, <<0, 0>> >> >> >>,
       << <<0, 0>>,    << << <<1, 0>>, <<120, 0>> >>, << <<0, 1>>, <<0, 120>> >> >> >>,
       << <<120, 0>>,  << >> >>,
       << <<0, 120>>,  << >> >> >>

Networks == {merge_network, fork_network}

\* The nodes that are the end of some edge of the outgoing mapping, once
\* per edge (the incoming mapping's lists, as their lengths).
InDegree(network, node) ==
    Cardinality({<<k, e>> \in (1..Len(network)) \X (1..4) :
        e <= Len(network[k][2]) /\ network[k][2][e][2] = node})

OutDegree(network, node) ==
    LET k == CHOOSE j \in 1..Len(network) : network[j][1] = node
    IN Len(network[k][2])

\* AsymmetricRoadNetwork._generate_gates
entry_gates(network) ==
    {network[k][1] : k \in {j \in 1..Len(network) :
        Len(network[j][2]) = 1 /\ InDegree(network, network[j][1]) = 0}}

exit_gates(network) ==
    {network[k][1] : k \in {j \in 1..Len(network) :
        InDegree(network, network[j][1]) = 1 /\ Len(network[j][2]) = 0}}

\* Road.__init__
Road(segment, direction, entry, exit) ==
    [ startnode |-> segment[1],
      endnode   |-> segment[2],
      direction |-> direction,
      has_entry |-> entry,
      has_exit  |-> exit,
      cars      |-> << >> ]

\* The stop line put on the end node.
stop_line_at_end(road) == road.endnode

\* The stop line put two clearances before the end node.
stop_line_far(road) == Sub(road.endnode, Mul(2 * clearance, road.direction))

\* Road.stop_line
stop_line(road) == Sub(road.endnode, Mul(clearance, road.direction))

\* Road.distance_to_endnode
distance_to_endnode(road, position) == Norm(Sub(position, road.endnode))

RECURSIVE Flatten(_)
Flatten(ss) == IF ss = << >> THEN << >> ELSE Head(ss) \o Flatten(Tail(ss))

\* MapManager._generate_roads: one Road per directed edge, in dict order.
GenerateRoads(network) ==
    Flatten([ k \in 1..Len(network) |->
        [ e \in 1..Len(network[k][2]) |->
            Road(<<network[k][1], network[k][2][e][2]>>,
                 network[k][2][e][1],
                 network[k][1] \in entry_gates(network),
                 network[k][2][e][2] \in exit_gates(network)) ] ])

\* MapManager._validate_roads
ValidateRoads(rs) ==
    \A i \in 1..Len(rs) :
        /\ Norm(Sub(rs[i].endnode, rs[i].startnode)) >= 2 * clearance
        /\ (rs[i].direction[1] = 0 \/ rs[i].direction[2] = 0)

RECURSIVE Ascending(_)
Ascending(S) ==
    IF S = {} THEN << >>
    ELSE LET m == CHOOSE x \in S : \A y \in S : x <= y
         IN <<m>> \o Ascending(S \ {m})

\* Intersection.incoming_roads / outgoing_roads as filled by
\* MapManager._generate_intersections (indices into MapManager.roads, in
\* the order of MapManager.roads).
incoming_roads(rs, node) == Ascending({i \in 1..Len(rs) : rs[i].endnode = node})
outgoing_roads(rs, node) == Ascending({i \in 1..Len(rs) : rs[i].startnode = node})

\* road.connected_intersection: the intersection at the road's end node.
connected_intersection(road) == road.endnode

\* ------------------------------------------------------------ construction
\* The square of np.linalg.norm; a norm is compared with a positive number
\* by comparing the squares.
NormSq(v) == v[1] * v[1] + v[2] * v[2]

\* Road.__init__ that lets a road of the clearance's length through.
Road_init_at_clearance(segment, direction, road_clearance, spawn_probability, entry, exit) ==
    [error |-> IF spawn_probability < 0 \/ spawn_probability > 10
               THEN "Probability must be between 0 and 1."
               ELSE IF road_clearance <= 0
               THEN "Clearance must be positive."
               ELSE IF NormSq(Sub(segment[2], segment[1])) < road_clearance * road_clearance
               THEN "Clearance must be less than the length of the road."
               ELSE "",
     road |-> Road(segment, direction, entry, exit),
     spawn_probability |-> spawn_probability,
     clearance |-> road_clearance,
     stop_line |-> Sub(segment[2], Mul(road_clearance, direction))]

\* Road.__init__ with its checks: the ValueError raised ("" for none) and
\* the attributes of the object.  The direction is the caller's argument.
Road_init(segment, direction, road_clearance, spawn_probability, entry, exit) ==
    [error |-> IF spawn_probability < 0 \/ spawn_probability > 10
               THEN "Probability must be between 0 and 1."
               ELSE IF road_clearance <= 0
               THEN "Clearance must be positive."
               ELSE IF NormSq(Sub(segment[2], segment[1])) <= road_clearance * road_clearance
               THEN "Clearance must be less than the length of the road."
               ELSE IF NormSq(Sub(segment[2], segment[1])) = 0
               THEN "Road must have a length greater than 0."
               ELSE "",
     road |-> Road(segment, direction, entry, exit),
     spawn_probability |-> spawn_probability,
     clearance |-> road_clearance,
     stop_line |-> Sub(segment[2], Mul(road_clearance, direction))]

\* MapManager._validate_roads that asks for more than twice the clearance.
MapManager_validate_roads_strict(rs, min_clearance) ==
    \A i \in 1..Len(rs) :
        /\ ~(NormSq(Sub(rs[i].endnode, rs[i].startnode))
                <= (2 * min_clearance) * (2 * min_clearance))
        /\ (rs[i].direction[1] = 0 \/ rs[i].direction[2] = 0)

\* MapManager._validate_roads for the clearance of the constructor.
MapManager_validate_roads(rs, min_clearance) ==
    \A i \in 1..Len(rs) :
        /\ ~(NormSq(Sub(rs[i].endnode, rs[i].startnode))
                < (2 * min_clearance) * (2 * min_clearance))
        /\ (rs[i].direction[1] = 0 \/ rs[i].direction[2] = 0)

\* MapManager._generate_roads with the checks of Road.__init__: the roads
\* appended so far and the first ValueError.
MapManager_generate_roads(network, entries, exits, spawn_probability, min_clearance) ==
    LET made == Flatten([k \in 1..Len(network) |->
                    [e \in 1..Len(network[k][2]) |->
                        Road_init(<<network[k][1], network[k][2][e][2]>>,
                                  network[k][2][e][1], min_clearance, spawn_probability,
                                  network[k][1] \in entries,
                                  network[k][2][e][2] \in exits)]])
        failed == {i \in 1..Len(made) : made[i].error # ""}
        first == IF failed = {} THEN Len(made) + 1
                 ELSE CHOOSE i \in failed : \A j \in failed : i <= j
    IN IF spawn_probability < 0 \/ spawn_probability > 10
       THEN [roads |-> << >>, error |-> "Probability must be between 0 and 1."]
       ELSE [roads |-> [i \in 1..(first - 1) |-> made[i].road],
             error |-> IF failed = {} THEN "" ELSE made[first].error]

\* MapManager.__init__: the roads of the engine and the ValueError that
\* ends the construction ("" when the engine is built).
MapManager_init(network, entries, exits, spawn_probability, min_clearance) ==
    IF spawn_probability < 0 \/ spawn_probability > 10
    THEN [roads |-> << >>, error |-> "Probability must be between 0 and 1."]
    ELSE IF min_clearance < MinClearance
    THEN [roads |-> << >>, error |-> "Clearance must be at least 6 to avoid collision."]
    ELSE LET generated == MapManager_generate_roads(network, entries, exits,
                                                    spawn_probability, min_clearance)
         IN IF generated.error # "" THEN generated
            ELSE IF ~MapManager_validate_roads(generated.roads, min_clearance)
            THEN [roads |-> generated.roads,
                  error |-> "Roads must be 2x clearance in length and must be horizontal or vertical."]
            ELSE generated

\* MapManager._generate_roads, the list entry_roads: the places in
\* MapManager.roads of the roads made with entry == True.
MapManager_entry_roads(network, entries) ==
    LET starts == Flatten([k \in 1..Len(network) |->
                      [e \in 1..Len(network[k][2]) |-> network[k][1]]])
    IN SelectSeq([i \in 1..Len(starts) |-> i], LAMBDA i : starts[i] \in entries)

\* _generate_intersections that takes the roads leaving a node for its
\* incoming roads and the roads ending on it for its outgoing roads.
MapManager_generate_intersections_swapped(network, rs) ==
    LET ids == [r \in 1..Len(rs) |-> r]
    IN [ intersections |-> [i \in 1..Len(network) |->
             [ position       |-> network[i][1],
               incoming_roads |-> SelectSeq(ids, LAMBDA r : rs[r].startnode = network[i][1]),
               outgoing_roads |-> SelectSeq(ids, LAMBDA r : rs[r].endnode = network[i][1]) ]],
         connected_intersection |-> [r \in 1..Len(rs) |->
             LET at == {i \in 1..Len(network) : network[i][1] = rs[r].startnode}
             IN IF at = {} THEN 0 ELSE CHOOSE i \in at : \A j \in at : j <= i] ]

\* MapManager._generate_intersections: one Intersection per key of the
\* graph, in key order; the loop over the roads appends each road (its
\* place in MapManager.roads) to the incoming roads of the intersection on
\* its end node and to the outgoing roads of the intersection on its start
\* node, and sets road.connected_intersection (the place of the
\* intersection in MapManager.intersections, 0 for None).
MapManager_generate_intersections(network, rs) ==
    LET ids == [r \in 1..Len(rs) |-> r]
    IN [ intersections |-> [i \in 1..Len(network) |->
             [ position       |-> network[i][1],
               incoming_roads |-> SelectSeq(ids, LAMBDA r : rs[r].endnode = network[i][1]),
               outgoing_roads |-> SelectSeq(ids, LAMBDA r : rs[r].startnode = network[i][1]) ]],
         connected_intersection |-> [r \in 1..Len(rs) |->
             LET at == {i \in 1..Len(network) : network[i][1] = rs[r].endnode}
             IN IF at = {} THEN 0 ELSE CHOOSE i \in at : \A j \in at : j <= i] ]

\* ------------------------------------------------- AsymmetricRoadNetwork
\* The generator works on lattice nodes (whole coordinates).  A dict is the
\* sequence of its <<key, value>> pairs in insertion order.
HasKey(dict, key) == \E k \in 1..Len(dict) : dict[k][1] = key

Get(dict, key) == dict[CHOOSE k \in 1..Len(dict) : dict[k][1] = key][2]

\* dict.get(key, [])
GetOrEmpty(dict, key) == IF HasKey(dict, key) THEN Get(dict, key) ELSE << >>

\* dict[key].append(item)
AppendTo(dict, key, item) ==
    [k \in 1..Len(dict) |->
        IF dict[k][1] = key THEN <<key, Append(dict[k][2], item)>> ELSE dict[k]]

\* AsymmetricRoadNetwork.__init__
AsymmetricRoadNetwork ==
    [outgoing |-> << >>, incoming |-> << >>, entry_gates |-> << >>, exit_gates |-> << >>]

\* No segment passed to _add_segment yet.
NoSegments == [accepted |-> {}, raised |-> FALSE]

Sgn(x) == IF x > 0 THEN 1 ELSE IF x < 0 THEN -1 ELSE 0

\* AsymmetricRoadNetwork.get_unit_vector: the error raised ("" for none)
\* and the unit vector returned.
get_unit_vector(segment) ==
    LET x1 == segment[1][1]
        y1 == segment[1][2]
        x2 == segment[2][1]
        y2 == segment[2][2]
    IN IF x2 - x1 = 0 /\ y2 - y1 = 0
       THEN [error |-> "Segments with no direction are disallowed", value |-> <<0, 0>>]
       ELSE IF x1 # x2 /\ y1 # y2
       THEN [error |-> "Diagonal segments are disallowed", value |-> <<0, 0>>]
       ELSE [error |-> "", value |-> <<Sgn(x2 - x1), Sgn(y2 - y1)>>]

\* AsymmetricRoadNetwork._ensure_node_in_network
ensure_node_in_network(net, node) ==
    [net EXCEPT
        !.outgoing = IF HasKey(@, node) THEN @ ELSE Append(@, <<node, << >> >>),
        !.incoming = IF HasKey(@, node) THEN @ ELSE Append(@, <<node, << >> >>)]

\* _ensure_asymmetric_road that looks at the start node only.
ensure_asymmetric_road_one_way(net, startnode, endnode, direction) ==
    LET from_start == Get(net.outgoing, startnode)
    IN ~(\E e \in 1..Len(from_start) : direction = from_start[e][1])

\* _ensure_asymmetric_road that compares end nodes instead of directions.
ensure_asymmetric_road_by_node(net, startnode, endnode, direction) ==
    LET from_start == Get(net.outgoing, startnode)
        from_end == Get(net.outgoing, endnode)
    IN ~(\/ \E e \in 1..Len(from_start) : endnode = from_start[e][2]
         \/ \E e \in 1..Len(from_end) : startnode = from_end[e][2])

\* AsymmetricRoadNetwork._ensure_asymmetric_road: TRUE when it returns,
\* FALSE when it raises.
ensure_asymmetric_road(net, startnode, endnode, direction) ==
    LET inverse_direction == <<-direction[1], -direction[2]>>
        from_start == Get(net.outgoing, startnode)
        from_end == Get(net.outgoing, endnode)
    IN ~(\/ \E e \in 1..Len(from_start) : direction = from_start[e][1]
         \/ \E e \in 1..Len(from_end) : inverse_direction = from_end[e][1])

\* The ValueError of _ensure_asymmetric_road.
DuplicateEdge == "Attempting to add an already existing direction to the road_network."

\* _add_segment that appends the edge to the outgoing mapping only.
add_segment_outgoing_only(net, segment) ==
    LET startnode == segment[1]
        endnode == segment[2]
        unit == get_unit_vector(segment)
        direction == unit.value
        net1 == ensure_node_in_network(ensure_node_in_network(net, startnode), endnode)
    IN IF unit.error # ""
       THEN [network |-> net, error |-> unit.error]
       ELSE IF ~ensure_asymmetric_road(net1, startnode, endnode, direction)
       THEN [network |-> net1, error |-> DuplicateEdge]
       ELSE [network |->
                [net1 EXCEPT !.outgoing = AppendTo(@, startnode, <<direction, endnode>>)],
             error |-> ""]

\* _add_segment that appends the edge before the edge is tested.
add_segment_edge_first(net, segment) ==
    LET startnode == segment[1]
        endnode == segment[2]
        unit == get_unit_vector(segment)
        direction == unit.value
        net1 == ensure_node_in_network(ensure_node_in_network(net, startnode), endnode)
        net2 == [net1 EXCEPT
                    !.outgoing = AppendTo(@, startnode, <<direction, endnode>>),
                    !.incoming = AppendTo(@, endnode, startnode)]
    IN IF unit.error # ""
       THEN [network |-> net, error |-> unit.error]
       ELSE IF ~ensure_asymmetric_road(net1, startnode, endnode, direction)
       THEN [network |-> net2, error |-> DuplicateEdge]
       ELSE [network |-> net2, error |-> ""]

\* AsymmetricRoadNetwork._add_segment: the network after the call and the
\* error raised ("" for none).  The two nodes are put into the network
\* before the edge is tested.
add_segment(net, segment) ==
    LET startnode == segment[1]
        endnode == segment[2]
        unit == get_unit_vector(segment)
        direction == unit.value
        net1 == ensure_node_in_network(ensure_node_in_network(net, startnode), endnode)
    IN IF unit.error # ""
       THEN [network |-> net, error |-> unit.error]
       ELSE IF ~ensure_asymmetric_road(net1, startnode, endnode, direction)
       THEN [network |-> net1, error |-> DuplicateEdge]
       ELSE [network |->
                [net1 EXCEPT
                    !.outgoing = AppendTo(@, startnode, <<direction, endnode>>),
                    !.incoming = AppendTo(@, endnode, startnode)],
             error |-> ""]

\* convert_to_segments with every segment turned round.
convert_to_segments_reversed(net) ==
    Flatten([k \in 1..Len(net.outgoing) |->
        [e \in 1..Len(net.outgoing[k][2]) |->
            <<net.outgoing[k][2][e][2], net.outgoing[k][1]>>]])

\* AsymmetricRoadNetwork.convert_to_segments
convert_to_segments(net) ==
    Flatten([k \in 1..Len(net.outgoing) |->
        [e \in 1..Len(net.outgoing[k][2]) |->
            <<net.outgoing[k][1], net.outgoing[k][2][e][2]>>]])

\* The keys of a dict, in order.
KeysOf(dict) == [k \in 1..Len(dict) |-> dict[k][1]]

\* _generate_gates that takes any node without edges on the other side.
generate_gates_one_sided(net) ==
    [net EXCEPT
        !.entry_gates = SelectSeq(KeysOf(net.outgoing), LAMBDA node :
            /\ Len(Get(net.outgoing, node)) >= 1
            /\ Len(GetOrEmpty(net.incoming, node)) = 0),
        !.exit_gates = SelectSeq(KeysOf(net.incoming), LAMBDA node :
            /\ Len(Get(net.incoming, node)) >= 1
            /\ Len(GetOrEmpty(net.outgoing, node)) = 0)]

\* AsymmetricRoadNetwork._generate_gates
generate_gates(net) ==
    [net EXCEPT
        !.entry_gates = SelectSeq(KeysOf(net.outgoing), LAMBDA node :
            /\ Len(Get(net.outgoing, node)) = 1
            /\ Len(GetOrEmpty(net.incoming, node)) = 0),
        !.exit_gates = SelectSeq(KeysOf(net.incoming), LAMBDA node :
            /\ Len(Get(net.incoming, node)) = 1
            /\ Len(GetOrEmpty(net.outgoing, node)) = 0)]

\* search_for_invalid_intersections without its second loop.
search_for_invalid_exits_only(net) ==
    IF \E k \in 1..Len(net.outgoing) :
          /\ net.outgoing[k][2] = << >>
          /\ \A g \in 1..Len(net.exit_gates) : net.exit_gates[g] # net.outgoing[k][1]
    THEN "has no exit"
    ELSE ""

\* AsymmetricRoadNetwork.search_for_invalid_intersections: the ValueError
\* raised ("" for none); the nodes without exit are searched first.
search_for_invalid_intersections(net) ==
    IF \E k \in 1..Len(net.outgoing) :
          /\ net.outgoing[k][2] = << >>
          /\ \A g \in 1..Len(net.exit_gates) : net.exit_gates[g] # net.outgoing[k][1]
    THEN "has no exit"
    ELSE IF \E k \in 1..Len(net.incoming) :
          /\ net.incoming[k][2] = << >>
          /\ \A g \in 1..Len(net.entry_gates) : net.entry_gates[g] # net.incoming[k][1]
    THEN "has no entrance"
    ELSE ""

\* enforce_reachability, the for loop over the edges of a node: the
\* neighbours not yet visited are pushed on the stack.
RECURSIVE PushNeighbours(_, _, _)
PushNeighbours(edges, visited, stack) ==
    IF edges = << >> THEN stack
    ELSE PushNeighbours(Tail(edges), visited,
                        IF Head(edges)[2] \notin visited
                        THEN Append(stack, Head(edges)[2]) ELSE stack)

\* enforce_reachability, the while loop: the set visited when the stack is
\* empty.
RECURSIVE Visit(_, _, _)
Visit(net, visited, stack) ==
    IF stack = << >> THEN visited
    ELSE LET node == stack[Len(stack)]
             seen == visited \cup {node}
         IN Visit(net, seen,
                  PushNeighbours(Get(net.outgoing, node), seen,
                                 SubSeq(stack, 1, Len(stack) - 1)))

\* The RuntimeError of enforce_reachability.
Unreachable == "Not all nodes are reachable from an entry gate"

\* enforce_reachability that visits the entry gates only.
enforce_reachability_gates_only(net) ==
    IF Cardinality({net.entry_gates[g] : g \in 1..Len(net.entry_gates)})
         # Len(net.outgoing)
    THEN Unreachable ELSE ""

\* AsymmetricRoadNetwork.enforce_reachability: the RuntimeError raised (""
\* for none).
enforce_reachability(net) ==
    IF Cardinality(Visit(net, {}, net.entry_gates)) # Len(net.outgoing)
    THEN Unreachable ELSE ""

\* ----------------------------------------------------- CustomRoadNetwork
\* _check_is_connected_network, the symmetric graph: every edge is entered
\* at both of its nodes.
RECURSIVE Symmetric(_, _)
Symmetric(undirected_graph, segments) ==
    IF segments = << >> THEN undirected_graph
    ELSE Symmetric(AppendTo(AppendTo(undirected_graph, Head(segments)[1], Head(segments)[2]),
                            Head(segments)[2], Head(segments)[1]),
                   Tail(segments))

\* _check_is_connected_network, the for loop over the neighbours of a node:
\* the visited list and the queue as a pair.
RECURSIVE Enqueue(_, _, _)
Enqueue(neighbours, visited, queue) ==
    IF neighbours = << >> THEN <<visited, queue>>
    ELSE IF \E i \in 1..Len(visited) : visited[i] = Head(neighbours)
    THEN Enqueue(Tail(neighbours), visited, queue)
    ELSE Enqueue(Tail(neighbours), Append(visited, Head(neighbours)),
                 Append(queue, Head(neighbours)))

\* _check_is_connected_network, the while loop: the visited list when the
\* queue is empty.
RECURSIVE Search(_, _, _)
Search(undirected_graph, visited, queue) ==
    IF queue = << >> THEN visited
    ELSE LET next == Enqueue(Get(undirected_graph, Head(queue)), visited, Tail(queue))
         IN Search(undirected_graph, next[1], next[2])

\* The ValueError of _check_is_connected_network.
NotConnected == "All roads are not connected"

\* _check_is_connected_network on the edges as they point.
check_is_connected_directed(net) ==
    IF net.outgoing = << >> THEN ""
    ELSE LET graph == [k \in 1..Len(net.outgoing) |->
                          <<net.outgoing[k][1],
                            [e \in 1..Len(net.outgoing[k][2]) |-> net.outgoing[k][2][e][2]]>>]
             start_node == graph[1][1]
         IN IF Len(graph) # Len(Search(graph, <<start_node>>, <<start_node>>))
            THEN NotConnected ELSE ""

\* CustomRoadNetwork._check_is_connected_network: the ValueError raised
\* ("" for none).
check_is_connected_network(net) ==
    IF net.outgoing = << >> THEN ""
    ELSE LET undirected_graph ==
                 Symmetric([k \in 1..Len(net.outgoing) |-> <<net.outgoing[k][1], << >> >>],
                           convert_to_segments(net))
             start_node == undirected_graph[1][1]
         IN IF Len(undirected_graph)
                 # Len(Search(undirected_graph, <<start_node>>, <<start_node>>))
            THEN NotConnected ELSE ""

\* sorted(segments, key=...): a stable sort, each segment put behind the
\* segments whose key is not above its own.
RECURSIVE Sorted(_, _)
Sorted(segments, main_axis) ==
    IF segments = << >> THEN << >>
    ELSE LET segment == segments[Len(segments)]
             rest == Sorted(SubSeq(segments, 1, Len(segments) - 1), main_axis)
             n == Cardinality({i \in 1..Len(rest) :
                      rest[i][1][main_axis] <= segment[1][main_axis]})
         IN SubSeq(rest, 1, n) \o <<segment>> \o SubSeq(rest, n + 1, Len(rest))

\* CustomRoadNetwork._check_adjacent_overlap: the error raised ("" for
\* none).  Axis 1 is x and axis 2 is y.
check_adjacent_overlap(segments, orientation) ==
    LET fixed_axis == IF orientation = "horizontal" THEN 2 ELSE 1
        main_axis == IF orientation = "horizontal" THEN 1 ELSE 2
        sorted_segments == Sorted(segments, main_axis)
    IN IF \E i \in 1..(Len(sorted_segments) - 1) :
            LET current_segment == sorted_segments[i]
                next_segment == sorted_segments[i + 1]
                A_start == current_segment[1][main_axis]
                A_end == current_segment[2][main_axis]
                B_start == next_segment[1][main_axis]
                B_end == next_segment[2][main_axis]
            IN /\ current_segment[1][fixed_axis] = next_segment[1][fixed_axis]
               /\ \/ A_start < B_end /\ B_start < A_end
                  \/ A_start = B_start /\ A_end = B_end
       THEN "lines overlap"
       ELSE ""

\* The two tests _check_intersections makes on one pair.
Crosses(h_seg, v_seg) ==
    LET h_min_x == Min(h_seg[1][1], h_seg[2][1])
        h_max_x == Max(h_seg[1][1], h_seg[2][1])
        v_min_y == Min(v_seg[1][2], v_seg[2][2])
        v_max_y == Max(v_seg[1][2], v_seg[2][2])
    IN /\ h_min_x <= v_seg[1][1] /\ v_seg[1][1] <= h_max_x
       /\ v_min_y < h_seg[1][2] /\ h_seg[1][2] < v_max_y

LandsOn(h_seg, v_seg) ==
    LET h_min_x == Min(h_seg[1][1], h_seg[2][1])
        h_max_x == Max(h_seg[1][1], h_seg[2][1])
        v_min_y == Min(v_seg[1][2], v_seg[2][2])
        v_max_y == Max(v_seg[1][2], v_seg[2][2])
    IN /\ h_min_x < v_seg[1][1] /\ v_seg[1][1] < h_max_x
       /\ (v_min_y = h_seg[1][2] \/ v_max_y = h_seg[1][2])

\* The pairs in the order of the two nested loops.
PairsOf(horizontal_lines, vertical_lines) ==
    Flatten([h \in 1..Len(horizontal_lines) |->
        [v \in 1..Len(vertical_lines) |-> <<horizontal_lines[h], vertical_lines[v]>>]])

\* _check_intersections with the vertical's x strictly inside the
\* horizontal in both tests.
check_intersections_strict(horizontal_lines, vertical_lines) ==
    LET pairs == PairsOf(horizontal_lines, vertical_lines)
    IN IF \E k \in 1..Len(pairs) :
            \/ Crosses(pairs[k][1], pairs[k][2])
               /\ pairs[k][2][1][1] # pairs[k][1][1][1]
               /\ pairs[k][2][1][1] # pairs[k][1][2][1]
            \/ LandsOn(pairs[k][1], pairs[k][2])
       THEN "Intersection detected"
       ELSE ""

\* CustomRoadNetwork._check_intersections: the error raised by the first
\* pair that fails a test ("" for none).
check_intersections(horizontal_lines, vertical_lines) ==
    LET pairs == PairsOf(horizontal_lines, vertical_lines)
        bad == {k \in 1..Len(pairs) :
                   Crosses(pairs[k][1], pairs[k][2]) \/ LandsOn(pairs[k][1], pairs[k][2])}
    IN IF bad = {} THEN ""
       ELSE LET k == CHOOSE j \in bad : \A i \in bad : j <= i
            IN IF Crosses(pairs[k][1], pairs[k][2])
               THEN "Intersection detected"
               ELSE "has a starting or ending node on"

\* CustomRoadNetwork._sort_by_direction: the two lists, or the ValueError for
\* a diagonal segment or a null vector.
RECURSIVE sort_by_direction(_, _, _)
sort_by_direction(segments, vertical_lines, horizontal_lines) ==
    IF segments = << >>
    THEN [vertical_lines |-> vertical_lines, horizontal_lines |-> horizontal_lines,
          error |-> ""]
    ELSE LET segment == Head(segments)
         IN IF segment[1][1] = segment[2][1] /\ segment[1][2] # segment[2][2]
            THEN sort_by_direction(Tail(segments), Append(vertical_lines, segment),
                                   horizontal_lines)
            ELSE IF segment[1][2] = segment[2][2] /\ segment[1][1] # segment[2][1]
            THEN sort_by_direction(Tail(segments), vertical_lines,
                                   Append(horizontal_lines, segment))
            ELSE [vertical_lines |-> vertical_lines, horizontal_lines |-> horizontal_lines,
                  error |-> "diagonal segment or null vector"]

\* CustomRoadNetwork.validate_roads: the first error raised ("" for none).
validate_roads(net) ==
    IF net.entry_gates = << >> THEN "At least one entry gate must be defined"
    ELSE IF net.exit_gates = << >> THEN "At least one exit gate must be defined"
    ELSE LET sorted == sort_by_direction(convert_to_segments(net), << >>, << >>)
         IN IF sorted.error # "" THEN sorted.error
            ELSE IF check_adjacent_overlap(sorted.vertical_lines, "vertical") # ""
            THEN check_adjacent_overlap(sorted.vertical_lines, "vertical")
            ELSE IF check_adjacent_overlap(sorted.horizontal_lines, "horizontal") # ""
            THEN check_adjacent_overlap(sorted.horizontal_lines, "horizontal")
            ELSE IF check_intersections(sorted.horizontal_lines, sorted.vertical_lines) # ""
            THEN check_intersections(sorted.horizontal_lines, sorted.vertical_lines)
            ELSE IF check_is_connected_network(net) # ""
            THEN check_is_connected_network(net)
            ELSE search_for_invalid_intersections(net)

\* CustomRoadNetwork._generate_roads: the segments are added in turn; the
\* first ValueError of _add_segment ends the loop.
RECURSIVE generate_roads(_, _)
generate_roads(net, segments) ==
    IF segments = << >> THEN [network |-> net, error |-> ""]
    ELSE LET one == add_segment(net, Head(segments))
         IN IF one.error # "" THEN one
            ELSE generate_roads(one.network, Tail(segments))

\* CustomRoadNetwork.__init__ that never enforces reachability.
CustomRoadNetwork_unenforced(segments, enforce_valid_paths) ==
    LET built == generate_roads(AsymmetricRoadNetwork, segments)
        net == generate_gates(built.network)
    IN IF built.error # "" THEN built
       ELSE [network |-> net, error |-> validate_roads(net)]

\* CustomRoadNetwork.__init__: the network and the error that ends the
\* construction ("" when the object is built).
CustomRoadNetwork(segments, enforce_valid_paths) ==
    LET built == generate_roads(AsymmetricRoadNetwork, segments)
        net == generate_gates(built.network)
    IN IF built.error # "" THEN built
       ELSE IF validate_roads(net) # ""
       THEN [network |-> net, error |-> validate_roads(net)]
       ELSE IF enforce_valid_paths
       THEN [network |-> net, error |-> enforce_reachability(net)]
       ELSE [network |-> net, error |-> ""]

\* ----------------------------------------------------- RandomRoadNetwork
\* RandomRoadNetwork.__init__, before the loop: the empty network and the
\* empty set of blocked nodes.
RandomRoadNetwork ==
    [outgoing |-> << >>, incoming |-> << >>, entry_gates |-> << >>,
     exit_gates |-> << >>, blocked_nodes |-> {}]

\* reset that leaves the incoming mapping of the attempt in place.
reset_keep_incoming(net) ==
    [net EXCEPT !.outgoing = << >>, !.entry_gates = << >>,
                !.exit_gates = << >>, !.blocked_nodes = {}]

\* RandomRoadNetwork.reset
reset(net) ==
    [net EXCEPT !.outgoing = << >>, !.incoming = << >>, !.entry_gates = << >>,
                !.exit_gates = << >>, !.blocked_nodes = {}]

\* _node_is_obstacle that finds no node blocked.
node_is_obstacle_never(net, node) == FALSE

\* RandomRoadNetwork._node_is_obstacle
node_is_obstacle(net, node) == node \in net.blocked_nodes

\* The list of directions _get_available_directions starts from.
Cardinal == << <<0, 1>>, <<0, -1>>, <<1, 0>>, <<-1, 0>> >>

\* RandomRoadNetwork._get_available_directions: the directions of the
\* node's outgoing edges are removed, then every direction whose next node
\* is blocked or has an edge to the node.
get_available_directions(net, node) ==
    LET taken == GetOrEmpty(net.outgoing, node)
        free == SelectSeq(Cardinal, LAMBDA direction :
                    \A e \in 1..Len(taken) : taken[e][1] # direction)
    IN SelectSeq(free, LAMBDA direction :
           LET new_node == Add(node, direction)
           IN /\ ~node_is_obstacle(net, new_node)
              /\ HasKey(net.outgoing, new_node) =>
                    \A e \in 1..Len(Get(net.outgoing, new_node)) :
                        Get(net.outgoing, new_node)[e][2] # node)

\* _upscale_road_network that scales the keys of the incoming mapping only.
upscale_road_network_keys(net, scalar) ==
    [net EXCEPT
        !.outgoing = [k \in 1..Len(@) |->
            <<Mul(scalar, @[k][1]),
              [e \in 1..Len(@[k][2]) |-> <<@[k][2][e][1], Mul(scalar, @[k][2][e][2])>>]>>],
        !.incoming = [k \in 1..Len(@) |-> <<Mul(scalar, @[k][1]), @[k][2]>>]]

\* RandomRoadNetwork._upscale_road_network for a positive integer scalar:
\* both mappings are rebuilt in key order with every node scaled.
upscale_road_network(net, scalar) ==
    [net EXCEPT
        !.outgoing = [k \in 1..Len(@) |->
            <<Mul(scalar, @[k][1]),
              [e \in 1..Len(@[k][2]) |-> <<@[k][2][e][1], Mul(scalar, @[k][2][e][2])>>]>>],
        !.incoming = [k \in 1..Len(@) |->
            <<Mul(scalar, @[k][1]),
              [e \in 1..Len(@[k][2]) |-> Mul(scalar, @[k][2][e])]>>]]

\* The body of the try block after _upscale_road_network, without the test
\* of the gate lists.
attempt_ungated(net, enforce_valid_paths) ==
    IF enforce_valid_paths THEN enforce_reachability(net) ELSE ""

\* RandomRoadNetwork.__init__, the try block after _generate_gates: the
\* RuntimeError raised ("" for none).
attempt(net, enforce_valid_paths) ==
    IF net.exit_gates = << >> \/ net.entry_gates = << >>
    THEN "Insufficient entry or exit gates"
    ELSE IF enforce_valid_paths THEN enforce_reachability(net)
    ELSE ""

\* list.remove(item): the first occurrence is taken out.
Remove(list, item) ==
    LET k == CHOOSE i \in 1..Len(list) :
                 list[i] = item /\ \A j \in 1..(i - 1) : list[j] # item
    IN SubSeq(list, 1, k - 1) \o SubSeq(list, k + 1, Len(list))

\* The options of one iteration without the tests of the two nodes.
options_of_any(net, startnode, endnode) ==
    << <<startnode, endnode>>, <<endnode, startnode>> >>

\* _generate_roads, the options of one iteration.
options_of(net, startnode, endnode) ==
    (IF /\ GetOrEmpty(net.incoming, startnode) # << >>
        /\ (~HasKey(net.outgoing, endnode) \/ GetOrEmpty(net.outgoing, endnode) # << >>)
     THEN << <<startnode, endnode>> >> ELSE << >>)
    \o
    (IF /\ GetOrEmpty(net.outgoing, startnode) # << >>
        /\ (~HasKey(net.outgoing, endnode) \/ GetOrEmpty(net.incoming, endnode) # << >>)
     THEN << <<endnode, startnode>> >> ELSE << >>)

\* ------------------------------------------------------------------- cars
\* Python's None where a Car is expected.
None == [ID |-> 0, color |-> 0, max_speed |-> 0, position |-> <<0, 0>>]

\* Car.__init__: id is Car.generation_count, speed and color the values of
\* random.uniform and random.choices.
Car(id, position, speed, color) ==
    [ID |-> id, color |-> color, max_speed |-> speed, position |-> position]

Last(q) == q[Len(q)]

\* ----------------------------------------------------------- Intersection
\* float('inf')
inf == 999999

\* Intersection.distance_to_car
distance_to_car(node, car) == Norm(Sub(car.position, node))

RECURSIVE ScanIncoming(_, _, _, _, _)
ScanIncoming(rs, node, ids, closest_car, min_distance) ==
    IF ids = << >> THEN closest_car
    ELSE LET road == rs[Head(ids)]
             distance == distance_to_car(node, Head(road.cars))
         IN IF road.cars # << >> /\ distance < min_distance
            THEN ScanIncoming(rs, node, Tail(ids), Head(road.cars), distance)
            ELSE ScanIncoming(rs, node, Tail(ids), closest_car, min_distance)

RECURSIVE ScanIncomingTies(_, _, _, _, _)
ScanIncomingTies(rs, node, ids, closest_car, min_distance) ==
    IF ids = << >> THEN closest_car
    ELSE LET road == rs[Head(ids)]
             distance == distance_to_car(node, Head(road.cars))
         IN IF road.cars # << >> /\ distance <= min_distance
            THEN ScanIncomingTies(rs, node, Tail(ids), Head(road.cars), distance)
            ELSE ScanIncomingTies(rs, node, Tail(ids), closest_car, min_distance)

\* closest_incoming_car with a tie going to the car of the road scanned last.
closest_incoming_car_ties(rs, node, priority_car) ==
    ScanIncomingTies(rs, node, incoming_roads(rs, node), priority_car,
                     distance_to_car(node, priority_car))

\* Intersection.closest_incoming_car
closest_incoming_car(rs, node, priority_car) ==
    ScanIncoming(rs, node, incoming_roads(rs, node), priority_car,
                 distance_to_car(node, priority_car))

RECURSIVE ScanOutgoing(_, _, _, _, _)
ScanOutgoing(rs, node, ids, closest_car, min_distance) ==
    IF ids = << >> THEN closest_car
    ELSE LET road == rs[Head(ids)]
             distance == distance_to_car(node, Last(road.cars))
         IN IF road.cars # << >> /\ (closest_car = None \/ distance < min_distance)
            THEN ScanOutgoing(rs, node, Tail(ids), Last(road.cars), distance)
            ELSE ScanOutgoing(rs, node, Tail(ids), closest_car, min_distance)

\* Intersection.closest_outgoing_car
closest_outgoing_car(rs, node) ==
    ScanOutgoing(rs, node, outgoing_roads(rs, node), None, inf)

\* can_approach without the priority of the closest incoming car.
can_approach_no_priority(rs, node, car) ==
    LET closest_car == closest_outgoing_car(rs, node)
    IN ~(closest_car # None /\ distance_to_car(node, closest_car) < clearance)

\* can_approach with an outgoing car at exactly the clearance blocking.
can_approach_inclusive(rs, node, car) ==
    LET closest_car == closest_outgoing_car(rs, node)
    IN IF closest_car # None /\ distance_to_car(node, closest_car) <= clearance
       THEN FALSE
       ELSE car.ID = closest_incoming_car(rs, node, car).ID

\* Intersection.can_approach
can_approach(rs, node, car) ==
    LET closest_car == closest_outgoing_car(rs, node)
    IN IF closest_car # None /\ distance_to_car(node, closest_car) < clearance
       THEN FALSE
       ELSE IF car.ID # closest_incoming_car(rs, node, car).ID
       THEN FALSE
       ELSE TRUE

RECURSIVE ScanAvailable(_, _, _)
ScanAvailable(rs, node, ids) ==
    IF ids = << >> THEN << >>
    ELSE LET road == rs[Head(ids)]
         IN (IF road.cars = << >> THEN <<Head(ids)>>
             ELSE IF Norm(Sub(Last(road.cars).position, node)) >= clearance * 2
                  THEN <<Head(ids)>>
                  ELSE << >>)
            \o ScanAvailable(rs, node, Tail(ids))

\* available_roads with a road taken only when its back car is beyond
\* twice the clearance.
available_roads_beyond(rs, node) ==
    LET ids == outgoing_roads(rs, node)
    IN SelectSeq(ids, LAMBDA r :
           rs[r].cars = << >>
           \/ Norm(Sub(Last(rs[r].cars).position, node)) > clearance * 2)

\* The list available_roads built by Intersection.find_available_road.
available_roads(rs, node) == ScanAvailable(rs, node, outgoing_roads(rs, node))

\* Intersection.find_available_road: random.choice over available_roads,
\* pick being the random index drawn; 0 stands for None.
find_available_road(rs, node, pick) ==
    LET available == available_roads(rs, node)
    IN IF available # << >> THEN available[(pick % Len(available)) + 1] ELSE 0

\* ------------------------------------------------------------------- Road
\* add_car that puts the car at the front of the deque (appendleft).
add_car_front(rs, r, car) == [rs EXCEPT ![r].cars = <<car>> \o @]

\* Road.add_car
add_car(rs, r, car) == [rs EXCEPT ![r].cars = Append(@, car)]

\* remove_first_car that pops the back of the deque.
remove_last_car(rs, r) == [rs EXCEPT ![r].cars = SubSeq(@, 1, Len(@) - 1)]

\* Road.remove_first_car (the caller keeps the popped car)
remove_first_car(rs, r) == [rs EXCEPT ![r].cars = Tail(@)]

\* generate_car_from_gate without the test of the spawn point.
generate_car_unguarded(rs, count, r, draw, speed, color) ==
    IF rs[r].has_entry /\ draw <= probability
    THEN <<add_car(rs, r, Car(count, rs[r].startnode, speed, color)), count + 1>>
    ELSE <<rs, count>>

\* generate_car_from_gate with a Car.__init__ that leaves the counter as it is.
generate_car_same_count(rs, count, r, draw, speed, color) ==
    LET road == rs[r]
    IN IF /\ road.has_entry
          /\ (road.cars = << >>
              \/ Norm(Sub(Last(road.cars).position, road.startnode)) >= clearance)
          /\ draw <= probability
       THEN <<add_car(rs, r, Car(count, road.startnode, speed, color)), count>>
       ELSE <<rs, count>>

\* Road.generate_car_from_gate; draw is the value of random.random(), speed
\* and color the values drawn in Car.__init__.  The result is the pair of
\* the roads and the identifier counter.
generate_car_from_gate(rs, count, r, draw, speed, color) ==
    LET road == rs[r]
    IN IF /\ road.has_entry
          /\ (road.cars = << >>
              \/ Norm(Sub(Last(road.cars).position, road.startnode)) >= clearance)
          /\ draw <= probability
       THEN <<add_car(rs, r, Car(count, road.startnode, speed, color)), count + 1>>
       ELSE <<rs, count>>

\* ------------------------------------------------------------- MapManager
\* Car.move: the car object is shared by every queue that holds it.
move(rs, id, position) ==
    [r \in 1..Len(rs) |->
        [rs[r] EXCEPT !.cars =
            [k \in 1..Len(rs[r].cars) |->
                IF rs[r].cars[k].ID = id
                THEN [rs[r].cars[k] EXCEPT !.position = position]
                ELSE rs[r].cars[k]]]]

\* _max_speed without the clearance kept behind the car in front.
max_speed_no_clearance(car, car_in_front, road) ==
    LET dist_to_end == Norm(Sub(road.endnode, car.position))
        dist_to_car_infront == Norm(Sub(car_in_front.position, car.position))
    IN IF car_in_front # None
       THEN Min(dist_to_end, Max(0, Min(dist_to_car_infront, car.max_speed)))
       ELSE Min(dist_to_end, car.max_speed)

\* _max_speed without the check that keeps the movement from being negative.
max_speed_no_floor(car, car_in_front, road) ==
    LET dist_to_end == Norm(Sub(road.endnode, car.position))
        dist_to_car_infront == Norm(Sub(car_in_front.position, car.position))
    IN IF car_in_front # None
       THEN Min(dist_to_end, Min(dist_to_car_infront - clearance, car.max_speed))
       ELSE Min(dist_to_end, car.max_speed)

\* MapManager._max_speed
max_speed_of(car, car_in_front, road) ==
    LET dist_to_end == Norm(Sub(road.endnode, car.position))
        dist_to_car_infront == Norm(Sub(car_in_front.position, car.position))
        max_movement == Max(0, Min(dist_to_car_infront - clearance, car.max_speed))
    IN IF car_in_front # None
       THEN Min(dist_to_end, max_movement)
       ELSE Min(dist_to_end, car.max_speed)

\* _handle_exit that leaves the car of an exit road in the queue.
handle_exit_keep(rs, r, pick) ==
    LET new_road == find_available_road(rs, connected_intersection(rs[r]), pick)
    IN IF rs[r].has_exit THEN rs
       ELSE IF new_road # 0
            THEN add_car(remove_first_car(rs, r), new_road, Head(rs[r].cars))
            ELSE rs

\* _handle_exit that hands the car to the first outgoing road without
\* asking whether that road is available.
handle_exit_unasked(rs, r, pick) ==
    LET leaving == outgoing_roads(rs, connected_intersection(rs[r]))
    IN IF rs[r].has_exit THEN remove_first_car(rs, r)
       ELSE IF leaving # << >>
            THEN add_car(remove_first_car(rs, r), leaving[1], Head(rs[r].cars))
            ELSE rs

\* _handle_exit that appends the car to the new road and leaves it in the
\* queue of the road it came from.
handle_exit_copy(rs, r, pick) ==
    LET new_road == find_available_road(rs, connected_intersection(rs[r]), pick)
    IN IF rs[r].has_exit THEN remove_first_car(rs, r)
       ELSE IF new_road # 0
            THEN add_car(rs, new_road, Head(rs[r].cars))
            ELSE rs

\* MapManager._handle_exit
handle_exit(rs, r, pick) ==
    LET new_road == find_available_road(rs, connected_intersection(rs[r]), pick)
    IN IF rs[r].has_exit THEN remove_first_car(rs, r)
       ELSE IF new_road # 0
            THEN add_car(remove_first_car(rs, r), new_road, Head(rs[r].cars))
            ELSE rs

\* The car in front read from the snapshot as a copy of the cars.
car_in_front_snapshot(cars, live, i) == IF i > 1 THEN cars[i - 1] ELSE None

\* cars[i - 1] in move_cars: the snapshot copies the deque, not the cars, so
\* the car in front is the live object, already moved in this pass.
car_in_front_of(cars, live, i) == IF i > 1 THEN live[i - 1] ELSE None

RECURSIVE MoveQueueNext(_, _, _, _, _, _, _)

\* move_cars, after car.move(position): rs1 holds the moved car; a car that
\* now stands on the end node is handed to _handle_exit.  The result is the
\* roads and the history record of this move.
ExitStep(rs1, r, i, car, car_in_front, front_before, max_position, denied, position, pick) ==
    LET road == rs1[r]
        at_end == ~denied /\ position = road.endnode
    IN [ roads |-> IF at_end THEN handle_exit(rs1, r, pick) ELSE rs1,
         entry |-> [ ID           |-> car.ID,
                     road         |-> r,
                     index        |-> i,
                     from         |-> car.position,
                     speed        |-> car.max_speed,
                     front        |-> car_in_front,
                     front_before |-> front_before,
                     max_position |-> max_position,
                     denied       |-> denied,
                     to           |-> position,
                     at_end       |-> at_end,
                     available    |-> IF at_end /\ ~road.has_exit
                                      THEN available_roads(rs1, connected_intersection(road))
                                      ELSE << >>,
                     head         |-> IF at_end THEN Head(road.cars).ID ELSE 0 ] ]

\* move_cars: car.move(road.stop_line) or car.move(max_position).
MoveStep(rs, r, i, car, car_in_front, front_before, max_position, denied, pick) ==
    LET position == IF denied THEN stop_line(rs[r]) ELSE max_position
    IN Only({ExitStep(rs1, r, i, car, car_in_front, front_before,
                      max_position, denied, position, pick) :
             rs1 \in {move(rs, car.ID, position)}})

\* move_cars: the stop-line test on the candidate position.
ApproachStep(rs, r, i, car, car_in_front, front_before, max_position, pick) ==
    Only({MoveStep(rs, r, i, car, car_in_front, front_before, max_position, denied, pick) :
          denied \in {/\ distance_to_endnode(rs[r], max_position) <= clearance
                      /\ ~can_approach(rs, connected_intersection(rs[r]), car)}})

\* move_cars: the candidate position of one car of the snapshot.
MoveCar(rs, r, i, car, car_in_front, front_before, pick) ==
    Only({ApproachStep(rs, r, i, car, car_in_front, front_before, max_position, pick) :
          max_position \in {Add(car.position,
                                Mul(max_speed_of(car, car_in_front, rs[r]),
                                    rs[r].direction))}})

\* The loop "for i, car in enumerate(cars)" of move_cars for road r: cars is
\* the snapshot road.cars.copy(), live the same car objects as they are
\* now, st the roads and the history so far.
RECURSIVE MoveQueue(_, _, _, _, _, _)
MoveQueue(st, r, cars, live, i, pick) ==
    IF i > Len(cars) THEN st
    ELSE Only({MoveQueueNext(st, r, cars, live, i, pick, m) :
               m \in {MoveCar(st.roads, r, i, live[i], car_in_front_of(cars, live, i),
                              IF i > 1 THEN cars[i - 1].position ELSE <<0, 0>>, pick)}})

MoveQueueNext(st, r, cars, live, i, pick, m) ==
    Only({MoveQueue(st2, r, cars, live2, i + 1, pick) :
          st2 \in {[roads |-> m.roads, moved |-> st.moved \cup {m.entry}]},
          live2 \in {[live EXCEPT ![i].position = m.entry.to]}})

\* MapManager.move_cars: order is the shuffled list of roads, pick[r] the
\* random index drawn by find_available_road for road r.
RECURSIVE MoveRoads(_, _, _)
MoveRoads(st, order, pick) ==
    IF order = << >> THEN st
    ELSE Only({MoveRoads(st2, Tail(order), pick) :
               st2 \in {MoveQueue(st, Head(order), st.roads[Head(order)].cars,
                                  st.roads[Head(order)].cars, 1,
                                  IF Head(order) \in DOMAIN pick
                                  THEN pick[Head(order)] ELSE 0)}})

move_cars(rs, order, pick) == MoveRoads([roads |-> rs, moved |-> {}], order, pick)

\* MapManager.entry_roads
entry_roads(rs) == Ascending({r \in 1..Len(rs) : rs[r].has_entry})

\* MapManager.generate_cars: gate[r] holds the random values drawn for entry
\* road r: the draw, the speed and the colour.
RECURSIVE GenerateCars(_, _, _, _)
GenerateCars(rs, count, ids, gate) ==
    IF ids = << >> THEN <<rs, count>>
    ELSE Only({GenerateCars(g[1], g[2], Tail(ids), gate) :
               g \in {generate_car_from_gate(rs, count, Head(ids),
                                             gate[Head(ids)][1],
                                             gate[Head(ids)][2],
                                             gate[Head(ids)][3])}})

generate_cars(rs, count, gate) ==
    GenerateCars(rs, count, entry_roads(rs), gate)

\* The list left as it is.
list_keep(list) == list

\* list.clear()
list_clear(list) == SubSeq(list, 1, 0)

\* update_car, the loops that append one position and one colour per car of
\* every road's queue to the two lists.
append_cars(rs, positions, colors) ==
    [ car_positions |-> positions \o
          Flatten([r \in 1..Len(rs) |->
              [k \in 1..Len(rs[r].cars) |-> rs[r].cars[k].position]]),
      car_colors |-> colors \o
          Flatten([r \in 1..Len(rs) |->
              [k \in 1..Len(rs[r].cars) |-> rs[r].cars[k].color]]) ]

\* ---------------------------------------------------------- specification
RoadIds == 1..Len(roads)

\* random.shuffle(road_copy): every order of the roads.
Orders ==
    {o \in [RoadIds -> RoadIds] : \A a, b \in RoadIds : a # b => o[a] # o[b]}

\* random.choice in find_available_road, for the road whose car is at its
\* end: an index below the number of roads leaving the intersection.
Picks ==
    LET through == {r \in RoadIds : ~roads[r].has_exit}
        leaving(r) == Len(outgoing_roads(roads, roads[r].endnode))
    IN {p \in [through -> 0..3] : \A r \in through : p[r] < leaving(r)}

EntryIds == {r \in RoadIds : roads[r].has_entry}

\* The random values of one generate_car_from_gate call: the draw, and the
\* speed and colour of the new car (not drawn when the draw fails).  The
\* slow cars of a run get the first colour and the fast cars the second.
GateInputs ==
    {g \in Draws \X Speeds \X Colors :
        /\ (g[2] = 8 /\ g[3] = 1) \/ (g[2] = 12 /\ g[3] = 2)
        /\ g[1] <= probability \/ \A s \in Speeds : g[2] <= s}

\* MapManager.__init__ on the validated network: no car anywhere.
Init ==
    /\ \E network \in Networks : roads = GenerateRoads(network)
    /\ clearance >= MinClearance
    /\ probability >= 0 /\ probability <= 10
    /\ ValidateRoads(roads)
    /\ generation_count = 1
    /\ moved = {}
    /\ car_positions = << >>
    /\ car_colors = << >>
    /\ road_network = AsymmetricRoadNetwork
    /\ added = NoSegments
    /\ call = [op |-> "init"]

\* MapManager.update_car on the caller's two lists: the lists are cleared,
\* then move_cars, then generate_cars, then the lists are filled.
Tick ==
    \E order \in Orders, pick \in Picks :
    \E st \in {move_cars(roads, order, pick)} :
    \E gate \in [EntryIds -> GateInputs] :
    \E g \in {generate_cars(st.roads, generation_count, gate)} :
    \E out \in {append_cars(g[1], list_clear(car_positions), list_clear(car_colors))} :
        /\ g[2] <= MaxCars + 1
        /\ roads' = g[1]
        /\ generation_count' = g[2]
        /\ moved' = st.moved
        /\ car_positions' = out.car_positions
        /\ car_colors' = out.car_colors
        /\ call' = [op |-> "update_car"]
        /\ UNCHANGED generator

Next == Tick

Spec == Init /\ [][Next]_vars

\* ------------------------------------- specification of the pure routines
\* The routines of Intersection and MapManager that only read the state are
\* called on roads filled the way the unit tests fill them: cars put on a
\* road at chosen points, in queue order from the end node backwards.

\* Distances from the start node at which the cars are put.
Places == {0, 59, 60, 116, 120}

\* The queues of at most two cars on a road (front first), the cars of
\* road number r carrying the identifiers 2r - 1 and 2r.
QueuesOn(road, r) ==
    LET at(p) == Add(road.startnode, Mul(p, road.direction))
    IN {<< >>}
       \cup {<<Car(2 * r - 1, at(p), 8, 1)>> : p \in Places}
       \cup {<<Car(2 * r - 1, at(pq[1]), 8, 1), Car(2 * r, at(pq[2]), 8, 1)>> :
                pq \in {x \in Places \X Places : x[1] > x[2]}}

\* The roads of a network with every choice of queues.
Filled(rs) ==
    {[r \in 1..Len(rs) |-> [rs[r] EXCEPT !.cars = q[r]]] :
        q \in {f \in [1..Len(rs) -> UNION {QueuesOn(rs[r], r) : r \in 1..Len(rs)}] :
                  \A r \in 1..Len(rs) : f[r] \in QueuesOn(rs[r], r)}}

InitFn ==
    /\ \E network \in Networks : roads \in Filled(GenerateRoads(network))
    /\ generation_count = 2 * Len(roads) + 1
    /\ moved = {}
    /\ car_positions = << >>
    /\ car_colors = << >>
    /\ road_network = AsymmetricRoadNetwork
    /\ added = NoSegments
    /\ call = [op |-> "init"]

\* The cars in the queues of the roads that end at node.
Arriving(node) ==
    {roads[q[1]].cars[q[2]] :
        q \in {x \in RoadIds \X (1..2) :
                  roads[x[1]].endnode = node /\ x[2] <= Len(roads[x[1]].cars)}}

AllNodes == {roads[r].startnode : r \in RoadIds} \cup {roads[r].endnode : r \in RoadIds}

CallCanApproach ==
    \E node \in AllNodes : \E car \in Arriving(node) :
        /\ call' = [op |-> "can_approach", node |-> node, car |-> car,
                    result |-> can_approach(roads, node, car)]
        /\ UNCHANGED <<engine, generator>>

CallClosestIncoming ==
    \E node \in AllNodes : \E car \in Arriving(node) :
        /\ call' = [op |-> "closest_incoming_car", node |-> node, car |-> car,
                    result |-> closest_incoming_car(roads, node, car)]
        /\ UNCHANGED <<engine, generator>>

\* _max_speed as move_cars calls it: for a car of a queue, with the car
\* before it in the queue (None for the front car); the test suite sets
\* max_speed by hand, so the speed is an input of the call.
CallMaxSpeed ==
    \E r \in RoadIds : \E i \in 1..Len(roads[r].cars) : \E v \in Speeds :
        LET car == [roads[r].cars[i] EXCEPT !.max_speed = v]
            car_in_front == IF i > 1 THEN roads[r].cars[i - 1] ELSE None
        IN /\ call' = [op |-> "_max_speed", road |-> r, car |-> car,
                       car_in_front |-> car_in_front,
                       result |-> max_speed_of(car, car_in_front, roads[r])]
           /\ UNCHANGED <<engine, generator>>

\* find_available_road at an intersection; pick is the index random.choice
\* draws.
CallFindAvailable ==
    \E node \in AllNodes : \E pick \in 0..1 :
        /\ call' = [op |-> "find_available_road", node |-> node,
                    result |-> find_available_road(roads, node, pick)]
        /\ UNCHANGED <<engine, generator>>

\* generate_car_from_gate on any road, entry road or not; the queues before
\* the call are kept in the call record.
CallGenerateCar ==
    \E r \in RoadIds : \E g \in GateInputs :
    \E res \in {generate_car_from_gate(roads, generation_count, r, g[1], g[2], g[3])} :
        /\ roads' = res[1]
        /\ generation_count' = res[2]
        /\ call' = [op |-> "generate_car_from_gate", road |-> r, draw |-> g[1],
                    before |-> [q \in RoadIds |-> roads[q].cars]]
        /\ UNCHANGED <<moved, car_positions, car_colors, generator>>

\* One call per behaviour shows every routine on every filling.
NextFn ==
    /\ call.op = "init"
    /\ \/ CallCanApproach
       \/ CallClosestIncoming
       \/ CallMaxSpeed
       \/ CallFindAvailable
       \/ CallGenerateCar

SpecFn == InitFn /\ [][NextFn]_vars

\* ------------------------------- specification of the network generator
\* The lattice nodes of the segments: the unit square and the node (2, 0).
Lattice == {<<0, 0>>, <<1, 0>>, <<1, 1>>, <<0, 1>>, <<2, 0>>}

\* The segments passed to _add_segment: the sides of the square in both
\* directions, (0,0)->(2,0) over the square's lower side, (2,0)->(1,0) into
\* the square, one diagonal segment and one segment without direction.
Segments ==
    {s \in Lattice \X Lattice :
        \/ Abs(s[1][1] - s[2][1]) + Abs(s[1][2] - s[2][2]) = 1 /\ s[1][1] < 2 /\ s[2][1] < 2
        \/ s = << <<0, 0>>, <<2, 0>> >>
        \/ s = << <<2, 0>>, <<1, 0>> >>
        \/ s = << <<0, 0>>, <<1, 1>> >>
        \/ s = << <<0, 0>>, <<0, 0>> >>}

InitNet ==
    /\ roads = << >>
    /\ generation_count = 1
    /\ moved = {}
    /\ car_positions = << >>
    /\ car_colors = << >>
    /\ road_network = AsymmetricRoadNetwork
    /\ added = NoSegments
    /\ call = [op |-> "init"]

\* One _add_segment call; the gates are generated after the roads
\* (CustomRoadNetwork.__init__), so no segment is added once they are.
AddSegment ==
    \E segment \in Segments :
    \E res \in {add_segment(road_network, segment)} :
        /\ call.op \in {"init", "_add_segment"}
        /\ Cardinality(added.accepted) < MaxSegments
        /\ road_network' = res.network
        /\ added' = IF res.error = ""
                     THEN [added EXCEPT !.accepted = @ \cup {segment}]
                     ELSE [added EXCEPT !.raised = TRUE]
        /\ call' = [op |-> "_add_segment", segment |-> segment, error |-> res.error]
        /\ UNCHANGED engine

ConvertToSegments ==
    /\ call.op = "_add_segment"
    /\ call' = [op |-> "convert_to_segments", result |-> convert_to_segments(road_network)]
    /\ UNCHANGED <<engine, generator>>

GenerateGates ==
    /\ call.op = "_add_segment"
    /\ road_network' = generate_gates(road_network)
    /\ call' = [op |-> "_generate_gates"]
    /\ UNCHANGED <<engine, added>>

\* The validations are called on the network as built, before or after the
\* gates are generated; the network with no node is validated too.
Built == call.op \in {"init", "_add_segment", "_generate_gates"}

CheckIsConnected ==
    /\ Built
    /\ call' = [op |-> "_check_is_connected_network",
                error |-> check_is_connected_network(road_network)]
    /\ UNCHANGED <<engine, generator>>

SearchForInvalid ==
    /\ Built
    /\ call' = [op |-> "search_for_invalid_intersections",
                error |-> search_for_invalid_intersections(road_network)]
    /\ UNCHANGED <<engine, generator>>

EnforceReachability ==
    /\ Built
    /\ call' = [op |-> "enforce_reachability",
                error |-> enforce_reachability(road_network)]
    /\ UNCHANGED <<engine, generator>>

NextNet ==
    \/ AddSegment
    \/ ConvertToSegments
    \/ GenerateGates
    \/ CheckIsConnected
    \/ SearchForInvalid
    \/ EnforceReachability

SpecNet == InitNet /\ [][NextNet]_vars

\* ------------------------------ specification of the geometry routines
\* The static routines of CustomRoadNetwork are called on lists of
\* segments of the lattice 0..2 x 0..2.

\* The lists of one to n elements of S.
ListsOf(S, n) == UNION {[1..k -> S] : k \in 1..n}

\* Horizontal segments on the lines y = 0 and y = 1, both directions.
Horizontals ==
    {<< <<x[1], y>>, <<x[2], y>> >> : x \in {z \in (0..2) \X (0..2) : z[1] # z[2]},
                                      y \in 0..1}

\* The same segments turned to vertical ones (on the lines x = 0 and x = 1).
Verticals == {<< <<s[1][2], s[1][1]>>, <<s[2][2], s[2][1]>> >> : s \in Horizontals}

CheckAdjacentOverlap ==
    \E orientation \in {"horizontal", "vertical"} :
    \E segments \in ListsOf(IF orientation = "horizontal" THEN Horizontals ELSE Verticals,
                            MaxList) :
        /\ call' = [op |-> "_check_adjacent_overlap", orientation |-> orientation,
                    segments |-> segments,
                    error |-> check_adjacent_overlap(segments, orientation)]
        /\ UNCHANGED <<engine, generator>>

\* The horizontal segments on the line y = 1, which the vertical segments
\* cross, end on or miss.
Rows == {s \in Horizontals : s[1][2] = 1}

CheckIntersections ==
    \E horizontal_lines \in ListsOf(Rows, MaxLines) :
    \E vertical_lines \in ListsOf(Verticals, MaxLines) :
        /\ call' = [op |-> "_check_intersections",
                    horizontal_lines |-> horizontal_lines,
                    vertical_lines |-> vertical_lines,
                    error |-> check_intersections(horizontal_lines, vertical_lines)]
        /\ UNCHANGED <<engine, generator>>

\* The routines keep no state: one call per behaviour.
NextGeo == call.op = "init" /\ (CheckAdjacentOverlap \/ CheckIntersections)

SpecGeo == InitNet /\ [][NextGeo]_vars

\* ------------------------------------------- specification: CustomRoadNetwork
\* The longest list of lattice segments a CustomRoadNetwork is built from.
MaxRoads == 3

\* A network that passes validate_roads with a cycle no entry gate leads to:
\* the unit square, left at (1,0) for the road from the entry gate (3,0) to
\* the exit gate (2,1).
ring_network ==
    << << <<0, 0>>, <<1, 0>> >>, << <<1, 0>>, <<1, 1>> >>, << <<1, 1>>, <<0, 1>> >>,
       << <<0, 1>>, <<0, 0>> >>, << <<1, 0>>, <<2, 0>> >>, << <<3, 0>>, <<2, 0>> >>,
       << <<2, 0>>, <<2, 1>> >> >>

\* The elements of a list at the given places, in the order of the list.
RECURSIVE Kept(_, _)
Kept(list, places) ==
    IF list = << >> THEN << >>
    ELSE LET rest == Kept(SubSeq(list, 1, Len(list) - 1), places)
         IN IF Len(list) \in places THEN Append(rest, list[Len(list)]) ELSE rest

\* The segment lists passed to the constructor: the short lists of lattice
\* segments and the ring network with any of its segments left out.
SegmentLists ==
    ListsOf(Segments, MaxRoads)
        \cup {Kept(ring_network, places) : places \in SUBSET (1..Len(ring_network))}

Construct ==
    \E segments \in SegmentLists, enforce_valid_paths \in BOOLEAN :
    \E built \in {CustomRoadNetwork(segments, enforce_valid_paths)} :
        /\ road_network' = built.network
        /\ call' = [op |-> "CustomRoadNetwork", segments |-> segments,
                    enforce_valid_paths |-> enforce_valid_paths, error |-> built.error]
        /\ UNCHANGED <<engine, added>>

\* One construction per behaviour.
NextCustom == call.op = "init" /\ Construct

SpecCustom == InitNet /\ [][NextCustom]_vars

\* ------------------------------------------------ specification: construction
\* The arguments the constructors are called with, in tenths.
\* Probabilities: -0.1, 0, 0.5, 1 and 1.1.
Probabilities == {-1, 0, 5, 10, 11}

\* Clearances of a Road: -6, 0, 6 and 12.
RoadClearances == {-60, 0, 60, 120}

\* Directions: three unit vectors, the diagonal (1, 1) of
\* test_generate_diagonal_roads and a vector of length 2.
Directions == {<<1, 0>>, <<0, 1>>, <<-1, 0>>, <<1, 1>>, <<2, 0>>}

\* Segments of length 0, 5.9, 6, 6.1, 12 and 18 along the axes and a
\* diagonal one.
RoadSegments ==
    {<< <<0, 0>>, end>> : end \in {<<0, 0>>, <<59, 0>>, <<60, 0>>, <<61, 0>>, <<120, 0>>,
                                   <<0, 120>>, <<60, 60>>}}
        \cup {<< <<180, 0>>, <<0, 0>> >>}

ConstructRoad ==
    \E segment \in RoadSegments, direction \in Directions,
       road_clearance \in RoadClearances, spawn_probability \in Probabilities :
    \E made \in {Road_init(segment, direction, road_clearance, spawn_probability,
                           FALSE, FALSE)} :
        /\ call' = [op |-> "Road", segment |-> segment, direction |-> direction,
                    clearance |-> road_clearance, probability |-> spawn_probability,
                    error |-> made.error, stop_line |-> made.stop_line]
        /\ UNCHANGED <<engine, generator>>

\* Clearances of a MapManager: 5.9, 6, 50 and 51.
EngineClearances == {59, 60, 500, 510}

\* A network of one road from (0, 0), as the dict of _add_segment.
OneRoad(direction, endnode) ==
    << << <<0, 0>>, << <<direction, endnode>> >> >>, <<endnode, << >> >> >>

\* The networks a MapManager is constructed from: the two validated
\* networks, one road of length 11.9, 12, 100, 101.9 or 102, and a diagonal
\* road with the direction (1, 1).
EngineNetworks ==
    Networks
        \cup {OneRoad(<<1, 0>>, <<x, 0>>) : x \in {119, 120, 1000, 1019, 1020}}
        \cup {OneRoad(<<0, -1>>, <<0, -1000>>), OneRoad(<<1, 1>>, <<1000, 1000>>)}

\* The gate lists a MapManager is given with a network: the lists made by
\* _generate_gates, no gate at all, and every node as both kinds of gate.
GateLists(network) ==
    {<<entry_gates(network), exit_gates(network)>>,
     <<{}, {}>>,
     <<{network[k][1] : k \in 1..Len(network)}, {network[k][1] : k \in 1..Len(network)}>>}

ConstructMapManager ==
    \E network \in EngineNetworks, min_clearance \in EngineClearances,
       spawn_probability \in Probabilities :
    \E gates \in GateLists(network) :
    \E built \in {MapManager_init(network, gates[1], gates[2],
                                  spawn_probability, min_clearance)} :
    \E wired \in {MapManager_generate_intersections(network, built.roads)} :
        /\ roads' = IF built.error = "" THEN built.roads ELSE roads
        /\ call' = [op |-> "MapManager", road_network |-> network,
                    clearance |-> min_clearance, probability |-> spawn_probability,
                    entry_gates |-> gates[1], exit_gates |-> gates[2],
                    entry_roads |-> IF built.error = ""
                                    THEN MapManager_entry_roads(network, gates[1])
                                    ELSE << >>,
                    intersections |-> IF built.error = ""
                                      THEN wired.intersections ELSE << >>,
                    connected_intersection |-> IF built.error = ""
                                               THEN wired.connected_intersection
                                               ELSE << >>,
                    error |-> built.error]
        /\ UNCHANGED <<generation_count, moved, car_positions, car_colors, generator>>

\* One construction per behaviour.
NextConstruct == call.op = "init" /\ (ConstructRoad \/ ConstructMapManager)

SpecConstruct == InitNet /\ [][NextConstruct]_vars

\* ------------------------------------------- specification: RandomRoadNetwork
\* The constructor as a state machine: Start (the top of the while loop),
\* Generating (_generate_roads after its first segment), Validating (after
\* _upscale_road_network), then Accepted (break) or Retry (the except
\* clause), from which reset leads back to Start.  Raised is an exception
\* that leaves the constructor.  call holds the arguments and the local
\* variables of _generate_roads.

\* The largest total_segments the constructor is called with for every
\* scalar and both values of enforce_valid_paths.
MaxTotal == 4

\* The total_segments of the one longer call: the smallest number of
\* segments with which a network that has both gates can fail
\* enforce_reachability.
LongTotal == 7

\* The random walk is followed while it stays within this distance of the
\* spawn node (0, 0) on each axis.
MaxReach == 1

Box == ((-MaxReach)..MaxReach) \X ((-MaxReach)..MaxReach)

\* The scalars the constructor is called with.
Scalars == {1, 2}

\* The arguments of the constructor: total_segments, scalar and
\* enforce_valid_paths.
Calls ==
    (((-1)..MaxTotal) \X Scalars \X BOOLEAN) \cup {<<LongTotal, 1, TRUE>>}

\* RandomRoadNetwork._find_endnode: every end node the random picks can
\* lead to, with the blocked nodes the walk leaves behind.  pick_item can
\* return any of the available directions, and None when there is none.
RECURSIVE find_endnode(_, _, _)
find_endnode(net, node, node_direction) ==
    LET current_node == Add(node, node_direction)
        avail_dirs == get_available_directions(net, current_node)
        picks == IF avail_dirs = << >> THEN {<<0, 0>>}
                 ELSE {avail_dirs[k] : k \in 1..Len(avail_dirs)}
        in_network == HasKey(net.outgoing, current_node)
    IN IF current_node \notin Box THEN {}
       ELSE (IF in_network \/ picks # {node_direction}
             THEN {[endnode |-> current_node, blocked_nodes |-> net.blocked_nodes]}
             ELSE {})
            \cup
            (IF ~in_network /\ node_direction \in picks
             THEN find_endnode([net EXCEPT !.blocked_nodes = @ \cup {current_node}],
                               current_node, node_direction)
             ELSE {})

\* RandomRoadNetwork.__init__ up to the while loop.
Begin ==
    /\ call.op = "init"
    /\ \E args \in Calls :
          call' = [op |-> "RandomRoadNetwork",
                   state |-> IF args[1] < 1 THEN "Raised" ELSE "Start",
                   error |-> IF args[1] < 1
                             THEN "Total segments must be a positive integer" ELSE "",
                   total_segments |-> args[1], scalar |-> args[2],
                   enforce_valid_paths |-> args[3],
                   available_nodes |-> << >>, generated_segments |-> 0]
    /\ road_network' = RandomRoadNetwork
    /\ UNCHANGED <<engine, added>>

\* _generate_roads up to its while loop: the first segment leaves the spawn
\* node in one of its available directions.
FirstSegment ==
    /\ call.op = "RandomRoadNetwork"
    /\ call.state = "Start"
    /\ LET spawn_node == <<0, 0>>
           directions == get_available_directions(road_network, spawn_node)
       IN \E k \in 1..Len(directions) :
          \E one \in {add_segment(road_network,
                                  <<spawn_node, Add(spawn_node, directions[k])>>)} :
              /\ Add(spawn_node, directions[k]) \in Box
              /\ road_network' = one.network
              /\ call' = [call EXCEPT !.state = IF one.error = "" THEN "Generating"
                                                ELSE "Raised",
                                      !.error = one.error,
                                      !.available_nodes = <<spawn_node>>,
                                      !.generated_segments = 1]
    /\ UNCHANGED <<engine, added>>

\* One iteration of the while loop of _generate_roads for the start node at
\* place k of available_nodes.
Iteration(k) ==
    LET startnode == call.available_nodes[k]
        available_directions == get_available_directions(road_network, startnode)
    IN IF available_directions = << >>
       THEN /\ call' = [call EXCEPT !.available_nodes = Remove(@, startnode)]
            /\ UNCHANGED road_network
       ELSE \E j \in 1..Len(available_directions) :
            \E found \in find_endnode(road_network, startnode, available_directions[j]) :
                LET endnode == found.endnode
                    net == [road_network EXCEPT !.blocked_nodes = found.blocked_nodes]
                    nodes == IF ~HasKey(net.outgoing, endnode)
                             THEN Append(call.available_nodes, endnode)
                             ELSE call.available_nodes
                    options == options_of(net, startnode, endnode)
                IN IF options = << >>
                   THEN /\ road_network' = net
                        /\ call' = [call EXCEPT !.available_nodes = nodes]
                   ELSE \E o \in 1..Len(options) :
                        \E one \in {add_segment(net, options[o])} :
                            /\ road_network' = one.network
                            /\ call' = IF one.error # ""
                                       THEN [call EXCEPT !.state = "Raised",
                                                         !.error = one.error,
                                                         !.available_nodes = nodes]
                                       ELSE [call EXCEPT !.available_nodes = nodes,
                                                         !.generated_segments = @ + 1]

\* The while loop of _generate_roads; random.choice raises IndexError on an
\* empty list.
Generate ==
    /\ call.op = "RandomRoadNetwork"
    /\ call.state = "Generating"
    /\ call.generated_segments < call.total_segments
    /\ IF call.available_nodes = << >>
       THEN /\ call' = [call EXCEPT !.state = "Raised",
                                    !.error = "IndexError"]
            /\ UNCHANGED road_network
       ELSE \E k \in 1..Len(call.available_nodes) : Iteration(k)
    /\ UNCHANGED <<engine, added>>

\* _generate_roads returns and the network is scaled.
Upscale ==
    /\ call.op = "RandomRoadNetwork"
    /\ call.state = "Generating"
    /\ call.generated_segments >= call.total_segments
    /\ road_network' = upscale_road_network(road_network, call.scalar)
    /\ call' = [call EXCEPT !.state = "Validating"]
    /\ UNCHANGED <<engine, added>>

\* _generate_gates and the two tests of the try block: break, or the
\* RuntimeError caught by the except clause.
Validate ==
    /\ call.op = "RandomRoadNetwork"
    /\ call.state = "Validating"
    /\ \E net \in {generate_gates(road_network)} :
       \E error \in {attempt(net, call.enforce_valid_paths)} :
          /\ road_network' = net
          /\ call' = [call EXCEPT
                         !.state = IF error = "" THEN "Accepted" ELSE "Retry",
                         !.error = error]
    /\ UNCHANGED <<engine, added>>

\* The except clause: reset, and the loop starts again.
Retry ==
    /\ call.op = "RandomRoadNetwork"
    /\ call.state = "Retry"
    /\ road_network' = reset(road_network)
    /\ call' = [call EXCEPT !.state = "Start", !.error = "",
                            !.available_nodes = << >>, !.generated_segments = 0]
    /\ UNCHANGED <<engine, added>>

NextRandom == Begin \/ FirstSegment \/ Generate \/ Upscale \/ Validate \/ Retry

SpecRandom == InitNet /\ [][NextRandom]_vars

\* ------------------------------------------- specification: one exit road
\* The engine on a network that is one road from an entry gate to an exit
\* gate, of length 12 or 18, with update_car called again and again: the
\* animation calls it once per frame, so a tick that can change the state
\* is eventually taken.

\* The number of cars spawned in one run.
MaxSpawned == 4

ExitRoadNetworks == {OneRoad(<<1, 0>>, <<120, 0>>), OneRoad(<<0, -1>>, <<0, -180>>)}

InitExit ==
    /\ \E network \in ExitRoadNetworks : roads = GenerateRoads(network)
    /\ ValidateRoads(roads)
    /\ generation_count = 1
    /\ moved = {}
    /\ car_positions = << >>
    /\ car_colors = << >>
    /\ road_network = AsymmetricRoadNetwork
    /\ added = NoSegments
    /\ call = [op |-> "init"]

\* MapManager.update_car, as Tick, in a run of at most MaxSpawned cars.
TickExit ==
    \E order \in Orders, pick \in Picks :
    \E st \in {move_cars(roads, order, pick)} :
    \E gate \in [EntryIds -> GateInputs] :
    \E g \in {generate_cars(st.roads, generation_count, gate)} :
    \E out \in {append_cars(g[1], list_clear(car_positions), list_clear(car_colors))} :
        /\ g[2] <= MaxSpawned + 1
        /\ roads' = g[1]
        /\ generation_count' = g[2]
        /\ moved' = st.moved
        /\ car_positions' = out.car_positions
        /\ car_colors' = out.car_colors
        /\ call' = [op |-> "update_car"]
        /\ UNCHANGED generator

NextExit == TickExit

SpecExit == InitExit /\ [][NextExit]_vars /\ WF_vars(TickExit)

\* ----------------------------------------------------------------- claims
\* Every car that is in some queue, with the road it is on.
Queued(rs) ==
    {<<r, k>> \in RoadIds \X (1..MaxCars) : k <= Len(rs[r].cars)}

Nodes == {roads[r].startnode : r \in RoadIds} \cup {roads[r].endnode : r \in RoadIds}

\* The cars on the roads incident to a node that are closer to the node
\* than the clearance.
InsideClearance(rs, node) ==
    {q \in Queued(rs) :
        /\ (rs[q[1]].endnode = node \/ rs[q[1]].startnode = node)
        /\ Norm(Sub(rs[q[1]].cars[q[2]].position, node)) < clearance}

\* C1: after any number of ticks from the empty network, two cars that are
\* adjacent in one road's queue are at least the clearance apart.
C1_RoadSpacing ==
    \A r \in RoadIds : \A k \in 1..(Len(roads[r].cars) - 1) :
        Norm(Sub(roads[r].cars[k].position, roads[r].cars[k + 1].position)) >= clearance

\* A follower has closed up to exactly the clearance behind the car in front.
C1_Witness ==
    /\ call.op = "update_car"
    /\ \E r \in RoadIds : \E k \in 1..(Len(roads[r].cars) - 1) :
        /\ Norm(Sub(roads[r].cars[k].position, roads[r].cars[k + 1].position)) = clearance
        /\ \E m \in moved : m.ID = roads[r].cars[k + 1].ID /\ m.to # m.from

\* C2: at every intersection at most one car of the incident roads is
\* closer to the node than the clearance.
C2_MutualExclusion ==
    \A node \in Nodes : Cardinality(InsideClearance(roads, node)) <= 1

\* One car is inside the clearance of the junction while the front car of
\* the other incoming road is held at its stop line.
C2_Witness ==
    \E a, b \in RoadIds :
        /\ a # b
        /\ roads[a].endnode = roads[b].endnode
        /\ roads[a].cars # << >> /\ roads[b].cars # << >>
        /\ distance_to_endnode(roads[a], Head(roads[a].cars).position) < clearance
        /\ Head(roads[b].cars).position = stop_line(roads[b])
        /\ \E m \in moved : m.ID = Head(roads[b].cars).ID /\ m.denied

\* The identifiers of the cars in road r's queue.
IdsOn(rs, r) == {rs[r].cars[k].ID : k \in 1..Len(rs[r].cars)}

\* The identifiers of the cars in any queue.
IdsQueued(rs) == UNION {IdsOn(rs, r) : r \in 1..Len(rs)}

\* The position of the queued car with identifier id.
PositionOf(rs, id) ==
    LET q == CHOOSE q \in {<<r, k>> \in (1..Len(rs)) \X (1..(MaxCars + 1)) :
                               k <= Len(rs[r].cars)} : rs[q[1]].cars[q[2]].ID = id
    IN rs[q[1]].cars[q[2]].position

\* C5: a car whose candidate position is within the clearance of the end
\* node and that the intersection does not let approach ends the tick on the
\* stop line, the point one clearance before the end node; every other car
\* is moved to its candidate position.
C5_StopLineClamp ==
    \A m \in moved :
        LET road == roads[m.road]
            line == Sub(road.endnode, Mul(clearance, road.direction))
        IN /\ m.denied =>
                /\ Norm(Sub(m.max_position, road.endnode)) <= clearance
                /\ m.to = line
                /\ m.ID \in IdsOn(roads, m.road)
                /\ PositionOf(roads, m.ID) = line
                /\ Norm(Sub(PositionOf(roads, m.ID), road.endnode)) >= clearance
           /\ ~m.denied => m.to = m.max_position

\* A car was stopped on the stop line although its speed would have taken
\* it past the line.
C5_Witness ==
    \E m \in moved :
        /\ m.denied
        /\ m.from # m.to
        /\ Norm(Sub(m.max_position, roads[m.road].endnode)) < clearance

\* C6 as stated: the car in front is read at the position it had when the
\* road's snapshot was taken.
C6_FrontReadAtSnapshot ==
    \A m \in moved : m.index > 1 => m.front.position = m.front_before

\* C6 amended: the snapshot fixes which car is in front of which; the
\* distance to the car in front is measured to the position that car has
\* after its own move in the same pass.
C6_FrontReadAfterItsMove ==
    \A m \in moved :
        m.index > 1 =>
            \E f \in moved :
                /\ f.road = m.road
                /\ f.index = m.index - 1
                /\ f.ID = m.front.ID
                /\ m.front.position = f.to
                /\ m.to \in {stop_line(roads[m.road]),
                             Add(m.from,
                                 Mul(Min(Norm(Sub(roads[m.road].endnode, m.from)),
                                         Max(0, Min(Norm(Sub(f.to, m.from)) - clearance,
                                                    m.speed))),
                                     roads[m.road].direction))}

\* A follower moved in the same pass in which the car in front of it moved.
C6_Witness ==
    \E m \in moved :
        /\ m.index > 1
        /\ m.front.position # m.front_before
        /\ m.to # m.from

\* C7: with the front car A of a road not held back and B behind it on the
\* same road, after the tick A has advanced by min(A.max_speed, distance
\* to the end) and B stands at min(B's old position + B.max_speed,
\* A's new position - clearance), never behind B's old position.
C7_FollowingOnOneRoad ==
    [][\A r \in RoadIds :
        Len(roads[r].cars) >= 2 =>
            LET road == roads[r]
                A == roads[r].cars[1]
                B == roads[r].cars[2]
                a_to == Add(A.position,
                            Mul(Min(A.max_speed, Norm(Sub(road.endnode, A.position))),
                                road.direction))
                b_step == Min(B.max_speed, Norm(Sub(a_to, B.position)) - clearance)
                b_to == Add(B.position, Mul(Max(0, b_step), road.direction))
            IN (\E m \in moved' : m.ID = A.ID /\ m.road = r /\ ~m.denied) =>
                /\ A.ID \in IdsQueued(roads') => PositionOf(roads', A.ID) = a_to
                /\ B.ID \in IdsQueued(roads') => PositionOf(roads', B.ID) = b_to
      ]_vars

\* C9: on a road with an exit gate a car whose move puts it on the end
\* node is dequeued in the same tick and is in no queue afterwards.
C9_ExitRemoval ==
    \A m \in moved :
        (roads[m.road].has_exit /\ m.to = roads[m.road].endnode) =>
            m.ID \notin IdsQueued(roads)

\* A car drove onto the end node of an exit road in the last tick.
C9_Witness ==
    \E m \in moved :
        /\ roads[m.road].has_exit
        /\ m.to = roads[m.road].endnode
        /\ m.from # m.to

\* C10: a car that reaches the end node of a road without an exit gate is,
\* when some outgoing road is available, taken from the front of its road
\* and appended at the back of an available road in the same tick; when
\* none is available it stays at the front of its queue on the end node;
\* and a car waiting there has its transfer attempted again in every tick.
C10_TransferOrWait ==
    [][/\ \A m \in moved' :
            (m.at_end /\ ~roads'[m.road].has_exit) =>
                IF m.available # << >>
                THEN /\ m.ID \notin IdsOn(roads', m.road)
                     /\ \E k \in 1..Len(m.available) :
                            /\ roads'[m.available[k]].cars # << >>
                            /\ Last(roads'[m.available[k]].cars).ID = m.ID
                     /\ Cardinality({r \in RoadIds : m.ID \in IdsOn(roads', r)}) = 1
                ELSE /\ roads'[m.road].cars # << >>
                     /\ Head(roads'[m.road].cars).ID = m.ID
                     /\ Head(roads'[m.road].cars).position = roads'[m.road].endnode
       /\ \A r \in RoadIds :
            (/\ ~roads[r].has_exit
             /\ roads[r].cars # << >>
             /\ Head(roads[r].cars).position = roads[r].endnode
             /\ call'.op = "update_car") =>
                \E m \in moved' :
                    m.ID = Head(roads[r].cars).ID /\ m.road = r /\ m.at_end
      ]_vars

\* A car waits on the end node because no outgoing road is available, and
\* was already waiting there when the tick began.
C10_Witness ==
    \E m \in moved :
        /\ m.at_end
        /\ ~roads[m.road].has_exit
        /\ m.available = << >>
        /\ m.from = roads[m.road].endnode

\* C3: can_approach is false when the back car of some outgoing road is
\* closer to the intersection than the clearance, false when the front car
\* of some incoming road is strictly closer than the asking car, and true
\* in every other case (an outgoing car at exactly the clearance does not
\* block).
C3_CanApproach ==
    call.op = "can_approach" =>
        LET node == call.node
            blocked == \E r \in RoadIds :
                /\ roads[r].startnode = node
                /\ roads[r].cars # << >>
                /\ Norm(Sub(Last(roads[r].cars).position, node)) < clearance
            beaten == \E r \in RoadIds :
                /\ roads[r].endnode = node
                /\ roads[r].cars # << >>
                /\ Norm(Sub(Head(roads[r].cars).position, node))
                        < Norm(Sub(call.car.position, node))
        IN call.result = (~blocked /\ ~beaten)

\* can_approach let a car through with the back car of an outgoing road
\* at exactly the clearance.
C3_Witness ==
    /\ call.op = "can_approach"
    /\ call.result
    /\ \E r \in RoadIds :
        /\ roads[r].startnode = call.node
        /\ roads[r].cars # << >>
        /\ Norm(Sub(Last(roads[r].cars).position, call.node)) = clearance

\* The front cars of the roads that end at node.
Fronts(node) ==
    {Head(roads[r].cars) : r \in {x \in RoadIds :
        roads[x].endnode = node /\ roads[x].cars # << >>}}

\* C4: closest_incoming_car returns the closest front car of the incoming
\* roads when that car is strictly closer than the priority car, and the
\* priority car otherwise, so a tie goes to the priority car whatever the
\* order of the incoming roads.
C4_ClosestIncoming ==
    call.op = "closest_incoming_car" =>
        LET node == call.node
            d(c) == Norm(Sub(c.position, node))
            closer == {f \in Fronts(node) : d(f) < d(call.car)}
        IN IF closer # {}
           THEN /\ call.result \in closer
                /\ \A f \in Fronts(node) : d(call.result) <= d(f)
           ELSE call.result = call.car

\* The priority car won a tie against the front car of another road.
C4_Witness ==
    /\ call.op = "closest_incoming_car"
    /\ call.result = call.car
    /\ \E f \in Fronts(call.node) :
        /\ f.ID # call.car.ID
        /\ Norm(Sub(f.position, call.node)) = Norm(Sub(call.car.position, call.node))
        /\ \E r \in RoadIds :
            /\ roads[r].cars # << >>
            /\ Head(roads[r].cars) = f
            /\ call.car.ID \notin IdsOn(roads, r)

\* C8: _max_speed is min(max_speed, distance to the end node) without a car
\* in front and min(distance to end, max(0, min(distance to the car in
\* front - clearance, max_speed))) with one; it is never negative, never
\* above the car's max speed and never above the distance to the end node.
C8_MaxSpeed ==
    call.op = "_max_speed" =>
        LET to_end == Norm(Sub(roads[call.road].endnode, call.car.position))
            gap == Norm(Sub(call.car_in_front.position, call.car.position)) - clearance
            capped == IF gap < call.car.max_speed THEN gap ELSE call.car.max_speed
            floored == IF capped < 0 THEN 0 ELSE capped
        IN /\ call.car_in_front = None =>
                call.result = (IF call.car.max_speed < to_end
                               THEN call.car.max_speed ELSE to_end)
           /\ call.car_in_front # None =>
                call.result = (IF floored < to_end THEN floored ELSE to_end)
           /\ call.result >= 0
           /\ call.result <= call.car.max_speed
           /\ call.result <= to_end

\* _max_speed was cut down by the clearance behind a car in front that is
\* closer than clearance + max speed.
C8_Witness ==
    /\ call.op = "_max_speed"
    /\ call.car_in_front # None
    /\ call.result > 0
    /\ call.result < call.car.max_speed
    /\ call.result = Norm(Sub(call.car_in_front.position, call.car.position)) - clearance

\* The outgoing roads of node that are empty or whose back-most car is at
\* least twice the clearance from node.
Eligible(node) ==
    {r \in RoadIds :
        /\ roads[r].startnode = node
        /\ \/ roads[r].cars = << >>
           \/ Norm(Sub(Last(roads[r].cars).position, node)) >= 2 * clearance}

SpawnAllowed(road, before, draw) ==
    /\ road.has_entry
    /\ \/ before = << >>
       \/ Norm(Sub(Last(before).position, road.startnode)) >= clearance
    /\ draw <= probability

\* C12: generate_car_from_gate adds a car only on an entry road whose queue
\* is empty or whose back-most car is at least clearance from the start node,
\* and only when the draw is at most the spawn probability; the new car is
\* on the start node at the back of the queue; in every other case, and on
\* every other road, the queue is unchanged.
C12_SpawnGuard ==
    call.op = "generate_car_from_gate" =>
        /\ \A q \in RoadIds : q # call.road => roads[q].cars = call.before[q]
        /\ LET road == roads[call.road]
               before == call.before[call.road]
           IN IF SpawnAllowed(road, before, call.draw)
              THEN /\ Len(road.cars) = Len(before) + 1
                   /\ SubSeq(road.cars, 1, Len(before)) = before
                   /\ Last(road.cars).position = road.startnode
              ELSE road.cars = before

\* A car was spawned behind a car standing exactly clearance from the gate.
C12_Witness ==
    /\ call.op = "generate_car_from_gate"
    /\ call.before[call.road] # << >>
    /\ Norm(Sub(Last(call.before[call.road]).position,
                roads[call.road].startnode)) = clearance
    /\ Len(roads[call.road].cars) = Len(call.before[call.road]) + 1
    /\ Last(roads[call.road].cars).position = roads[call.road].startnode

\* The places of the queued cars: road number and index in the queue.
Slots(rs) ==
    {x \in (1..Len(rs)) \X (1..(MaxCars + 2)) : x[2] <= Len(rs[x[1]].cars)}

\* The cars of rs that were created in the step: their identifiers are not
\* below the counter the step started with.
Created(rs, count) == {x \in Slots(rs) : rs[x[1]].cars[x[2]].ID >= count}

\* C13: one update_car call is one tick in which every queued car is handled
\* by the movement before any car is generated (a new car stands unmoved on
\* its start node, behind a car that is at least clearance away after its
\* move), and afterwards the two lists hold exactly one position and one
\* colour per queued car, the i-th position and the i-th colour being those
\* of the same car, with nothing left from earlier calls.
C13_UpdateContract ==
    [][LET n == Len(car_positions')
       IN /\ Len(car_colors') = n
          /\ Cardinality(Slots(roads')) = n
          /\ \E f \in [1..n -> Slots(roads')] :
                /\ \A i, j \in 1..n : i # j => f[i] # f[j]
                /\ \A i \in 1..n :
                      LET car == roads'[f[i][1]].cars[f[i][2]]
                      IN /\ car_positions'[i] = car.position
                         /\ car_colors'[i] = car.color
          /\ \A id \in IdsQueued(roads) : \E m \in moved' : m.ID = id
          /\ generation_count' - generation_count
                = Cardinality(Created(roads', generation_count))
          /\ \A x \in Created(roads', generation_count) :
                LET road == roads'[x[1]]
                    car == road.cars[x[2]]
                IN /\ car.position = road.startnode
                   /\ \A m \in moved' : m.ID # car.ID
                   /\ x[2] = Len(road.cars)
                   /\ x[2] > 1 =>
                        Norm(Sub(road.cars[x[2] - 1].position, road.startnode))
                            >= clearance
      ]_vars

\* A car was generated in the tick in which the car before it left the
\* clearance of the gate, and the lists hold two cars of different colours.
C13_Witness ==
    /\ call.op = "update_car"
    /\ Len(car_positions) = 2
    /\ Len(car_colors) = 2
    /\ car_colors[1] # car_colors[2]
    /\ \E r \in RoadIds :
          /\ Len(roads[r].cars) = 2
          /\ roads[r].cars[2].position = roads[r].startnode
          /\ \A m \in moved : m.ID # roads[r].cars[2].ID
          /\ \E m \in moved :
                /\ m.ID = roads[r].cars[1].ID
                /\ Norm(Sub(m.from, roads[r].startnode)) < clearance
                /\ Norm(Sub(m.to, roads[r].startnode)) >= clearance

\* The queued cars whose identifier was in no queue before the step.
Arrived(before, after) ==
    {x \in Slots(after) : after[x[1]].cars[x[2]].ID \notin IdsQueued(before)}

\* C14: identifiers come from a counter that grows by one per created car:
\* no two cars share an identifier, the counter never goes back, every car
\* created in a step gets an identifier at or above the counter the step
\* started with and below the counter it ends with (so above the identifier
\* of every car created earlier, whether still in the network or not), and
\* of two cars created in one step the later one has the larger identifier.
C14_UniqueIds ==
    [][/\ \A x, y \in Slots(roads') :
            x # y => roads'[x[1]].cars[x[2]].ID # roads'[y[1]].cars[y[2]].ID
       /\ generation_count' >= generation_count
       /\ \A id \in IdsQueued(roads) : id < generation_count
       /\ generation_count' - generation_count
            = Cardinality(Arrived(roads, roads'))
       /\ \A x \in Arrived(roads, roads') :
            /\ roads'[x[1]].cars[x[2]].ID >= generation_count
            /\ roads'[x[1]].cars[x[2]].ID < generation_count'
       /\ \A x, y \in Arrived(roads, roads') :
            x[1] < y[1] => roads'[x[1]].cars[x[2]].ID < roads'[y[1]].cars[y[2]].ID
      ]_vars

\* The second car was created in the last tick, after the first car had
\* left the network.
C14_Witness ==
    /\ call.op = "update_car"
    /\ generation_count = 3
    /\ IdsQueued(roads) = {2}
    /\ \A m \in moved : m.ID # 2

\* The elements of a list.
Range(list) == {list[k] : k \in 1..Len(list)}

\* The directed edges the outgoing mapping holds, as <<start, direction, end>>,
\* with their place in the mapping.
EdgesOf(net) ==
    {<<net.outgoing[x[1]][1], net.outgoing[x[1]][2][x[2]][1],
       net.outgoing[x[1]][2][x[2]][2], x>> :
        x \in {y \in (1..Len(net.outgoing)) \X (1..(MaxSegments + 1)) :
                  y[2] <= Len(net.outgoing[y[1]][2])}}

\* The segments of the edges.
SegmentsOf(net) == {<<e[1], e[3]>> : e \in EdgesOf(net)}

\* C15: when every _add_segment call of a build succeeded,
\* convert_to_segments returns exactly the segments that were passed, each
\* once and in its direction.
C15_RoundTrip ==
    (call.op = "convert_to_segments" /\ ~added.raised) =>
        /\ Range(call.result) = added.accepted
        /\ Len(call.result) = Cardinality(added.accepted)

\* Three segments, two of them leaving the same node, were built and
\* converted back.
C15_Witness ==
    /\ call.op = "convert_to_segments"
    /\ ~added.raised
    /\ Cardinality(added.accepted) >= 3
    /\ \E a, b \in added.accepted : a # b /\ a[1] = b[1]

\* C16: _add_segment raises the duplicate-edge error, and adds no edge,
\* whenever the segment or its exact reverse is already in the graph.
C16_DuplicateRejected ==
    [][call'.op = "_add_segment" =>
        LET segment == call'.segment
        IN (\/ segment \in SegmentsOf(road_network)
            \/ <<segment[2], segment[1]>> \in SegmentsOf(road_network)) =>
                /\ call'.error = DuplicateEdge
                /\ EdgesOf(road_network') = EdgesOf(road_network)
      ]_vars

\* The reverse of a segment of a graph of two or more edges was refused.
C16_Witness ==
    /\ call.op = "_add_segment"
    /\ call.error = DuplicateEdge
    /\ call.segment \notin SegmentsOf(road_network)
    /\ <<call.segment[2], call.segment[1]>> \in SegmentsOf(road_network)
    /\ Cardinality(EdgesOf(road_network)) >= 2

\* C17: after any sequence of _add_segment calls, failed ones included, the
\* graph holds no edge twice, never both A->B and B->A, and no node has two
\* outgoing edges of the same unit direction.
C17_Asymmetry ==
    \A e, f \in EdgesOf(road_network) :
        /\ (e[4] # f[4] /\ e[1] = f[1]) => (e[3] # f[3] /\ e[2] # f[2])
        /\ ~(e[1] = f[3] /\ e[3] = f[1])

\* A segment over an edge of the same direction from the same node was
\* refused in a graph of three edges.
C17_Witness ==
    /\ call.op = "_add_segment"
    /\ call.error = DuplicateEdge
    /\ added.raised
    /\ Cardinality(EdgesOf(road_network)) >= 3
    /\ call.segment \notin SegmentsOf(road_network)
    /\ <<call.segment[2], call.segment[1]>> \notin SegmentsOf(road_network)

\* The nodes of the network and their degrees, counted on the edges.
NodesOf(net) == Range(KeysOf(net.outgoing)) \cup Range(KeysOf(net.incoming))
OutEdges(net, node) == Cardinality({e \in EdgesOf(net) : e[1] = node})
InEdges(net, node) == Cardinality({e \in EdgesOf(net) : e[3] = node})

\* C18: _generate_gates makes a node an entry gate exactly when it has one
\* outgoing edge and no incoming edge, and an exit gate exactly when it has
\* one incoming edge and no outgoing edge; each gate is listed once.
C18_Gates ==
    call.op = "_generate_gates" =>
        /\ Range(road_network.entry_gates) =
              {node \in NodesOf(road_network) :
                  OutEdges(road_network, node) = 1 /\ InEdges(road_network, node) = 0}
        /\ Range(road_network.exit_gates) =
              {node \in NodesOf(road_network) :
                  InEdges(road_network, node) = 1 /\ OutEdges(road_network, node) = 0}
        /\ Len(road_network.entry_gates) = Cardinality(Range(road_network.entry_gates))
        /\ Len(road_network.exit_gates) = Cardinality(Range(road_network.exit_gates))

\* Gates were generated on a network with an exit gate, a node of two
\* outgoing edges and no incoming edge, and a node with both kinds of edges.
C18_Witness ==
    /\ call.op = "_generate_gates"
    /\ road_network.exit_gates # << >>
    /\ \E node \in NodesOf(road_network) :
          /\ OutEdges(road_network, node) = 2
          /\ InEdges(road_network, node) = 0
          /\ node \notin Range(road_network.entry_gates)
    /\ \E node \in NodesOf(road_network) :
          /\ OutEdges(road_network, node) >= 1
          /\ InEdges(road_network, node) >= 1

\* Two segments of one orientation lie on the same line and their ranges
\* on that line have more than a point in common.
Overlapping(a, b, orientation) ==
    LET fixed == IF orientation = "horizontal" THEN 2 ELSE 1
        main == IF orientation = "horizontal" THEN 1 ELSE 2
    IN /\ a[1][fixed] = b[1][fixed]
       /\ Max(Min(a[1][main], a[2][main]), Min(b[1][main], b[2][main]))
            < Min(Max(a[1][main], a[2][main]), Max(b[1][main], b[2][main]))

\* C19: _check_adjacent_overlap raises exactly when two segments of the list
\* lie on the same line with overlapping or identical ranges, whatever the
\* direction of each segment and whatever other segments are in the list.
C19_OverlapDetected ==
    call.op = "_check_adjacent_overlap" =>
        (call.error # "" <=>
            \E i, j \in 1..Len(call.segments) :
                i < j /\ Overlapping(call.segments[i], call.segments[j], call.orientation))

\* A horizontal and a vertical segment have a point in common that is not
\* an endpoint of both.
BadTouch(h, v) ==
    LET x == v[1][1]
        y == h[1][2]
    IN /\ Min(h[1][1], h[2][1]) <= x /\ x <= Max(h[1][1], h[2][1])
       /\ Min(v[1][2], v[2][2]) <= y /\ y <= Max(v[1][2], v[2][2])
       /\ ~(<<x, y>> \in {h[1], h[2]} /\ <<x, y>> \in {v[1], v[2]})

\* C20: _check_intersections raises exactly when some horizontal/vertical
\* pair shares a point that is not an endpoint of both segments: a crossing,
\* or an endpoint of one in the open interior of the other; pairs touching
\* at a common endpoint and pairs that do not touch are accepted.
C20_CrossingDetected ==
    call.op = "_check_intersections" =>
        (call.error # "" <=>
            \E i \in 1..Len(call.horizontal_lines), j \in 1..Len(call.vertical_lines) :
                BadTouch(call.horizontal_lines[i], call.vertical_lines[j]))

\* A single pair was refused because an endpoint of the horizontal segment
\* lies in the open interior of the vertical segment.
C20_Witness ==
    /\ call.op = "_check_intersections"
    /\ call.error # ""
    /\ Len(call.horizontal_lines) = 1
    /\ Len(call.vertical_lines) = 1
    /\ LET h == call.horizontal_lines[1]
           v == call.vertical_lines[1]
       IN /\ v[1][1] \in {h[1][1], h[2][1]}
          /\ Min(v[1][2], v[2][2]) < h[1][2]
          /\ h[1][2] < Max(v[1][2], v[2][2])

\* The nodes joined to a set of nodes by edges taken in either direction.
RECURSIVE Component(_, _)
Component(net, nodes) ==
    LET more == nodes \cup {e[3] : e \in {d \in EdgesOf(net) : d[1] \in nodes}}
                      \cup {e[1] : e \in {d \in EdgesOf(net) : d[3] \in nodes}}
    IN IF more = nodes THEN nodes ELSE Component(net, more)

\* C21: _check_is_connected_network raises exactly when the nodes of the
\* network fall into more than one component of the graph with its edges
\* taken in both directions, whichever node the components are counted from;
\* the network without nodes passes.
C21_Connected ==
    call.op = "_check_is_connected_network" =>
        /\ call.error = "" <=>
              \A node \in NodesOf(road_network) :
                  Component(road_network, {node}) = NodesOf(road_network)
        /\ call.error # "" <=>
              /\ NodesOf(road_network) # {}
              /\ \A node \in NodesOf(road_network) :
                     Component(road_network, {node}) # NodesOf(road_network)
        /\ NodesOf(road_network) = {} => call.error = ""

\* Two segments that share no node are refused as not connected.
C21_Witness ==
    /\ call.op = "_check_is_connected_network"
    /\ call.error = NotConnected
    /\ ~added.raised
    /\ Cardinality(added.accepted) = 2
    /\ Cardinality(NodesOf(road_network)) = 4

\* The gates _generate_gates would list for the network.
GatesDerived(net) ==
    /\ Range(net.entry_gates) =
          {node \in NodesOf(net) : OutEdges(net, node) = 1 /\ InEdges(net, node) = 0}
    /\ Range(net.exit_gates) =
          {node \in NodesOf(net) : InEdges(net, node) = 1 /\ OutEdges(net, node) = 0}

\* C22: search_for_invalid_intersections raises exactly when some node has
\* no outgoing edge and is not listed as an exit gate, or has no incoming
\* edge and is not listed as an entry gate; when the gates are the generated
\* ones, every node with two or more edges on one side and none on the other
\* makes it raise.
C22_InvalidIntersections ==
    call.op = "search_for_invalid_intersections" =>
        /\ call.error # "" <=>
              \E node \in NodesOf(road_network) :
                  \/ /\ OutEdges(road_network, node) = 0
                     /\ node \notin Range(road_network.exit_gates)
                  \/ /\ InEdges(road_network, node) = 0
                     /\ node \notin Range(road_network.entry_gates)
        /\ GatesDerived(road_network) =>
              \A node \in NodesOf(road_network) :
                  (\/ /\ OutEdges(road_network, node) >= 2
                      /\ InEdges(road_network, node) = 0
                   \/ /\ InEdges(road_network, node) >= 2
                      /\ OutEdges(road_network, node) = 0) => call.error # ""

\* A node with two outgoing edges and no incoming edge is refused although
\* every node without exit is a generated exit gate.
C22_Witness ==
    /\ call.op = "search_for_invalid_intersections"
    /\ call.error # ""
    /\ road_network.exit_gates # << >>
    /\ GatesDerived(road_network)
    /\ \A node \in NodesOf(road_network) :
          OutEdges(road_network, node) = 0 => node \in Range(road_network.exit_gates)
    /\ \E node \in NodesOf(road_network) :
          OutEdges(road_network, node) >= 2 /\ InEdges(road_network, node) = 0

\* The nodes reached from a set of nodes along outgoing edges.
RECURSIVE Forward(_, _)
Forward(net, nodes) ==
    LET more == nodes \cup {e[3] : e \in {d \in EdgesOf(net) : d[1] \in nodes}}
    IN IF more = nodes THEN nodes ELSE Forward(net, more)

\* C23: enforce_reachability raises exactly when some node of the network
\* is not reached along outgoing edges from any entry gate, the entry gates
\* counting as reached; on a network with a cycle it returns all the same.
C23_Reachability ==
    call.op = "enforce_reachability" =>
        (call.error # "" <=>
            \E node \in NodesOf(road_network) :
                node \notin Forward(road_network, Range(road_network.entry_gates)))

\* A network whose entry gate leads into a cycle passes.
C23_Witness ==
    /\ call.op = "enforce_reachability"
    /\ call.error = ""
    /\ road_network.entry_gates # << >>
    /\ \E node \in NodesOf(road_network) :
          node \in Forward(road_network,
                           {e[3] : e \in {d \in EdgesOf(road_network) : d[1] = node}})

\* C24: a CustomRoadNetwork is built without error only if every segment
\* was added and the network has an entry gate and an exit gate, is one
\* component with its edges taken both ways, has no node without outgoing
\* edge outside the exit gates and none without incoming edge outside the
\* entry gates and, when enforce_valid_paths is set, has every node reached
\* from an entry gate; in every other case the construction ends in an error.
C24_Accepted ==
    call.op = "CustomRoadNetwork" =>
        (call.error = "" =>
            /\ SegmentsOf(road_network) = Range(call.segments)
            /\ road_network.entry_gates # << >>
            /\ road_network.exit_gates # << >>
            /\ GatesDerived(road_network)
            /\ \A node \in NodesOf(road_network) :
                  /\ Component(road_network, {node}) = NodesOf(road_network)
                  /\ OutEdges(road_network, node) = 0
                        => node \in Range(road_network.exit_gates)
                  /\ InEdges(road_network, node) = 0
                        => node \in Range(road_network.entry_gates)
            /\ call.enforce_valid_paths =>
                  NodesOf(road_network)
                      = Forward(road_network, Range(road_network.entry_gates)))

\* The ring network is built when reachability is not enforced, with the
\* nodes of its cycle out of reach of the entry gate.
C24_Witness ==
    /\ call.op = "CustomRoadNetwork"
    /\ call.error = ""
    /\ ~call.enforce_valid_paths
    /\ NodesOf(road_network)
          # Forward(road_network, Range(road_network.entry_gates))

\* The roads of a network passed to the constructor, as <<start, direction,
\* end>>.
RoadsOf(network) ==
    {<<network[x[1]][1], network[x[1]][2][x[2]][1], network[x[1]][2][x[2]][2]>> :
        x \in {y \in (1..Len(network)) \X (1..4) : y[2] <= Len(network[y[1]][2])}}

\* The arguments MapManager.__init__ must refuse.
Malformed(c) ==
    \/ c.probability < 0
    \/ c.probability > 10
    \/ c.clearance < 60
    \/ \E r \in RoadsOf(c.road_network) :
          \/ NormSq(Sub(r[3], r[1])) < 4 * c.clearance * c.clearance
          \/ (r[2][1] # 0 /\ r[2][2] # 0)

\* C28: MapManager.__init__ raises, and leaves no engine, whenever the
\* probability is outside [0, 1], the clearance is below 6, a road is
\* shorter than twice the clearance or a road's direction is not along an
\* axis; otherwise the engine is built, so a road of exactly twice the
\* clearance is accepted: the road of length 100 passes with clearance 50
\* and fails with clearance 51.
C28_EngineConstruction ==
    call.op = "MapManager" =>
        /\ Malformed(call) => (call.error # "" /\ roads = << >>)
        /\ ~Malformed(call) =>
              (call.error = "" /\ Len(roads) = Cardinality(RoadsOf(call.road_network)))
        /\ (/\ call.road_network = OneRoad(<<1, 0>>, <<1000, 0>>)
            /\ call.probability \in 0..10) =>
              /\ call.clearance = 500 => call.error = ""
              /\ call.clearance = 510 => call.error # ""

\* The road of length 100 is accepted with clearance 50.
C28_Witness ==
    /\ call.op = "MapManager"
    /\ call.error = ""
    /\ call.clearance = 500
    /\ Len(roads) = 1
    /\ NormSq(Sub(roads[1].endnode, roads[1].startnode)) = 4 * call.clearance * call.clearance

\* A point strictly between the two nodes of a segment.
StrictlyBetween(point, segment) ==
    LET along == Sub(segment[2], segment[1])
        to == Sub(point, segment[1])
        dot == to[1] * along[1] + to[2] * along[2]
    IN /\ to[1] * along[2] = to[2] * along[1]
       /\ 0 < dot
       /\ dot < NormSq(along)

\* The arguments Road.__init__ must refuse.
Refused(c) ==
    \/ c.probability < 0
    \/ c.probability > 10
    \/ c.clearance <= 0
    \/ NormSq(Sub(c.segment[2], c.segment[1])) <= c.clearance * c.clearance

\* C29 as stated: Road.__init__ raises whenever the probability is outside
\* [0, 1], the clearance is not positive or the segment is not longer than
\* the clearance, and every constructed Road has length > clearance > 0 and
\* its stop line strictly between its start node and its end node.
C29_StopLineOnRoad ==
    call.op = "Road" =>
        /\ Refused(call) => call.error # ""
        /\ call.error = "" =>
              /\ ~Refused(call)
              /\ StrictlyBetween(call.stop_line, call.segment)

\* C29, amended: Road.__init__ raises whenever the probability is outside
\* [0, 1], the clearance is not positive or the segment is not longer than
\* the clearance; every constructed Road has length > clearance > 0, and its
\* stop line lies strictly between its two nodes when the direction it was
\* given is the unit vector from the start node to the end node.
C29_RoadConstruction ==
    call.op = "Road" =>
        /\ Refused(call) => call.error # ""
        /\ call.error = "" =>
              /\ ~Refused(call)
              /\ (/\ NormSq(call.direction) = 1
                  /\ \E length \in 1..200 :
                        Mul(length, call.direction) = Sub(call.segment[2], call.segment[1]))
                    => StrictlyBetween(call.stop_line, call.segment)

\* A road of length 6.1 is constructed with clearance 6 and its stop line
\* 0.1 after the start node.
C29_Witness ==
    /\ call.op = "Road"
    /\ call.error = ""
    /\ call.segment = << <<0, 0>>, <<61, 0>> >>
    /\ call.clearance = 60
    /\ call.stop_line = <<1, 0>>

\* C30: in every state reached by update_car calls from the empty engine,
\* no car behind the front of a queue stands on the end node of its road,
\* and whenever _handle_exit ran in the last move_cars call, the car at the
\* front of the live queue, the one it dequeues, was the car whose move had
\* just put it on the end node.
C30_FrontAtEnd ==
    /\ \A q \in Queued(roads) :
          q[2] >= 2 => roads[q[1]].cars[q[2]].position # roads[q[1]].endnode
    /\ \A m \in moved : m.at_end => (m.head = m.ID /\ m.index = 1)
    /\ \A m \in moved :
          (m.at_end /\ (roads[m.road].has_exit \/ m.available # << >>))
              => m.ID \notin IdsOn(roads, m.road)

\* _handle_exit ran for the front car of a road while another car of the
\* snapshot followed it.
C30_Witness ==
    \E m \in moved :
        /\ m.at_end
        /\ m.head = m.ID
        /\ \E f \in moved : f.road = m.road /\ f.index = 2

\* C25: the constructor of RandomRoadNetwork breaks out of its loop only
\* with a network of exactly total_segments directed edges whose gate lists
\* are the generated gates of the scaled network, neither of them empty,
\* and, when enforce_valid_paths is set, with every node reached from an
\* entry gate; a total_segments below 1 raises before anything is generated.
C25_Accepted ==
    call.op = "RandomRoadNetwork" =>
        /\ call.state = "Accepted" =>
              /\ Cardinality(EdgesOf(road_network)) = call.total_segments
              /\ road_network.entry_gates # << >>
              /\ road_network.exit_gates # << >>
              /\ GatesDerived(road_network)
              /\ \A node \in NodesOf(road_network) :
                    \E x \in (-MaxReach)..MaxReach, y \in (-MaxReach)..MaxReach :
                        node = <<call.scalar * x, call.scalar * y>>
              /\ call.enforce_valid_paths =>
                    NodesOf(road_network)
                        = Forward(road_network, Range(road_network.entry_gates))
        /\ call.total_segments < 1 =>
              /\ call.state = "Raised"
              /\ call.error # ""
              /\ road_network = RandomRoadNetwork

\* A network of MaxTotal segments scaled by 2 is accepted with reachability
\* enforced.
C25_Witness ==
    /\ call.op = "RandomRoadNetwork"
    /\ call.state = "Accepted"
    /\ call.total_segments = MaxTotal
    /\ call.scalar = 2
    /\ call.enforce_valid_paths
    /\ \E node \in NodesOf(road_network) : Abs(node[1]) + Abs(node[2]) = 4

\* The attempt that has been validated is refused: a gate list is empty, or
\* reachability is enforced and some node is not reached from an entry gate.
Rejected(net, enforce_valid_paths) ==
    \/ net.entry_gates = << >>
    \/ net.exit_gates = << >>
    \/ /\ enforce_valid_paths
       /\ NodesOf(net) # Forward(net, Range(net.entry_gates))

\* C26: an attempt that fails the test of the gates or of reachability goes
\* to Retry and every other attempt to Accepted; Retry empties both
\* mappings, both gate lists and the blocked nodes and leads to Start, so
\* every attempt starts from the empty network; no exception leaves the
\* constructor from Validating or Retry.
C26_RetryResets ==
    [][call.op = "RandomRoadNetwork" =>
        /\ call.state = "Validating" =>
              call'.state = IF Rejected(road_network', call.enforce_valid_paths)
                            THEN "Retry" ELSE "Accepted"
        /\ call.state = "Retry" =>
              /\ call'.state = "Start"
              /\ road_network' = RandomRoadNetwork
        /\ call.state = "Start" => road_network = RandomRoadNetwork
        /\ call'.state = "Raised" => call.state \notin {"Validating", "Retry"}]_vars

\* An attempt that left edges, an entry gate and blocked nodes behind is
\* refused for its missing exit gate, and waits for reset.
C26_Witness ==
    /\ call.op = "RandomRoadNetwork"
    /\ call.state = "Retry"
    /\ road_network.outgoing # << >>
    /\ road_network.entry_gates # << >>
    /\ road_network.exit_gates = << >>
    /\ road_network.blocked_nodes # {}

\* The entries of the incoming mapping, as <<node, predecessor, place>>.
IncomingOf(net) ==
    {<<net.incoming[x[1]][1], net.incoming[x[1]][2][x[2]], x>> :
        x \in {y \in (1..Len(net.incoming)) \X (1..(MaxSegments + 1)) :
                  y[2] <= Len(net.incoming[y[1]][2])}}

\* C27: _upscale_road_network with a positive integer scalar k puts k * node
\* in the place of every node of the outgoing and of the incoming mapping,
\* keeps every edge with its unit direction, adds and removes no node and
\* no edge and leaves the incoming mapping the inverse of the outgoing one;
\* with k = 1 the network is unchanged.
C27_Upscale ==
    [][(/\ call.op = "RandomRoadNetwork"
        /\ call.state = "Generating"
        /\ call'.state = "Validating") =>
          LET k == call.scalar
              old == road_network
              new == road_network'
          IN /\ KeysOf(new.outgoing)
                   = [i \in 1..Len(old.outgoing) |-> Mul(k, old.outgoing[i][1])]
             /\ KeysOf(new.incoming)
                   = [i \in 1..Len(old.incoming) |-> Mul(k, old.incoming[i][1])]
             /\ EdgesOf(new) = {<<Mul(k, e[1]), e[2], Mul(k, e[3]), e[4]>> : e \in EdgesOf(old)}
             /\ IncomingOf(new) = {<<Mul(k, e[1]), Mul(k, e[2]), e[3]>> : e \in IncomingOf(old)}
             /\ \A e \in EdgesOf(new) :
                   Cardinality({p \in IncomingOf(new) : p[1] = e[3] /\ p[2] = e[1]}) = 1
             /\ Cardinality(IncomingOf(new)) = Cardinality(EdgesOf(new))
             /\ k = 1 => new = old]_vars

\* A network of MaxTotal segments stands on the doubled lattice after the
\* call with the scalar 2.
C27_Witness ==
    /\ call.op = "RandomRoadNetwork"
    /\ call.state = "Validating"
    /\ call.scalar = 2
    /\ Cardinality(EdgesOf(road_network)) = MaxTotal
    /\ \E e \in EdgesOf(road_network) : e[3] = Add(e[1], Mul(2, e[2]))

\* The identifiers of road r's queue, front to back.
IdList(rs, r) == [k \in 1..Len(rs[r].cars) |-> rs[r].cars[k].ID]

\* C31: after every tick each road's queue is in the order of the cars'
\* distances to the road's end node, the front car nearest the end; the
\* queue after the tick is the queue before it less some cars taken from
\* the front, followed by cars that were not in it and came in at the back.
C31_QueueOrder ==
    [][\A r \in RoadIds :
        LET before == IdList(roads, r)
            after == IdList(roads', r)
            road == roads'[r]
        IN /\ \A k \in 1..(Len(road.cars) - 1) :
                distance_to_endnode(road, road.cars[k].position)
                    <= distance_to_endnode(road, road.cars[k + 1].position)
           /\ \E gone \in 0..Len(before) :
                /\ Len(before) - gone <= Len(after)
                /\ SubSeq(after, 1, Len(before) - gone)
                       = SubSeq(before, gone + 1, Len(before))
                /\ \A k \in (Len(before) - gone + 1)..Len(after) :
                       after[k] \notin Range(before)
      ]_vars

\* The front car of a road left the road in the last tick, the car that
\* was behind it is the front car now.
C31_Witness ==
    \E m, f \in moved :
        /\ m.at_end /\ m.index = 1
        /\ m.ID \notin IdsOn(roads, m.road)
        /\ f.road = m.road /\ f.index = 2
        /\ Len(roads[m.road].cars) = 1
        /\ f.ID = roads[m.road].cars[1].ID

\* C36: no move of a tick takes a car farther from the end node of the road
\* it is on than it was, the move to the stop line included.
C36_NeverBackward ==
    \A m \in moved :
        distance_to_endnode(roads[m.road], m.to)
            <= distance_to_endnode(roads[m.road], m.from)

\* A car that stood on the stop line and had room to drive on was not let
\* into the intersection and was moved to the stop line, where it stood.
C36_Witness ==
    \E m \in moved :
        /\ m.denied
        /\ m.from = stop_line(roads[m.road])
        /\ m.max_position # m.from
        /\ m.to = m.from

\* C37: in one tick every car is moved at most once, and no car is
\* displaced by more than its own max speed.
C37_MovedOnce ==
    /\ \A m, n \in moved : m.ID = n.ID => m = n
    /\ \A m \in moved : Norm(Sub(m.to, m.from)) <= m.speed

\* The number of queue places a car with identifier id takes.
PlacesOf(rs, id) ==
    Cardinality({<<r, k>> \in (1..Len(rs)) \X (1..(MaxCars + 1)) :
                     k <= Len(rs[r].cars) /\ rs[r].cars[k].ID = id})

\* The position lies on the road's segment, the two nodes included.
OnSegment(road, position) ==
    Norm(Sub(position, road.startnode)) + Norm(Sub(road.endnode, position))
        = Norm(Sub(road.endnode, road.startnode))

\* C38: after every tick every car is in one queue once and stands on the
\* segment of the road it is queued on; a car that is new after the tick is
\* the one car spawned on a road with an entry gate, a car that is gone was
\* moved onto the end node of a road with an exit gate, and a car handed
\* from one road to another is in one queue before and after.
C38_Conservation ==
    [][/\ \A id \in IdsQueued(roads') : PlacesOf(roads', id) = 1
       /\ \A r \in RoadIds : \A k \in 1..Len(roads'[r].cars) :
              OnSegment(roads'[r], roads'[r].cars[k].position)
       /\ \A id \in IdsQueued(roads') \ IdsQueued(roads) :
              \E r \in RoadIds :
                  /\ roads[r].has_entry
                  /\ roads'[r].cars # << >>
                  /\ Last(roads'[r].cars).ID = id
                  /\ IdsOn(roads', r) \ IdsQueued(roads) = {id}
       /\ \A id \in IdsQueued(roads) \ IdsQueued(roads') :
              \E m \in moved' :
                  m.ID = id /\ m.at_end /\ roads[m.road].has_exit
       /\ \A m \in moved' :
              (m.at_end /\ ~roads[m.road].has_exit) => m.ID \in IdsQueued(roads')
      ]_vars

\* In the last tick one car was handed from its road to the back of another
\* road while a second car was spawned.
C38_Witness ==
    /\ \E m \in moved :
        /\ m.at_end /\ ~roads[m.road].has_exit
        /\ m.ID \notin IdsOn(roads, m.road)
        /\ \E r \in RoadIds : r # m.road /\ m.ID \in IdsOn(roads, r)
    /\ \E r \in RoadIds :
        /\ roads[r].cars # << >>
        /\ Last(roads[r].cars).position = roads[r].startnode
        /\ roads[r].has_entry
        /\ \A m \in moved : m.ID # Last(roads[r].cars).ID

\* C39 as stated: an _add_segment call that raises leaves the outgoing and
\* the incoming mapping, their keys included, as they were.
C39_FailureLeavesGraph ==
    [][(call'.op = "_add_segment" /\ call'.error # "") =>
          /\ road_network'.outgoing = road_network.outgoing
          /\ road_network'.incoming = road_network.incoming
      ]_vars

\* C39 amended: a call that raises for a diagonal segment or a segment
\* without direction leaves both mappings as they were; a call that raises
\* for an edge already in the network leaves every list of neighbours as it
\* was, and both nodes of the segment are keys of both mappings afterwards,
\* a node that was no key before being added behind the others with an
\* empty list.
C39_FailureFrame ==
    [][(call'.op = "_add_segment" /\ call'.error # "") =>
          LET before == road_network
              after == road_network'
              segment == call'.segment
              fresh == {n \in {segment[1], segment[2]} : ~HasKey(before.outgoing, n)}
          IN /\ after.entry_gates = before.entry_gates
             /\ after.exit_gates = before.exit_gates
             /\ call'.error # DuplicateEdge => after = before
             /\ call'.error = DuplicateEdge =>
                   /\ SubSeq(after.outgoing, 1, Len(before.outgoing)) = before.outgoing
                   /\ SubSeq(after.incoming, 1, Len(before.incoming)) = before.incoming
                   /\ Len(after.outgoing) = Len(before.outgoing) + Cardinality(fresh)
                   /\ Len(after.incoming) = Len(before.incoming) + Cardinality(fresh)
                   /\ \A n \in fresh :
                         /\ HasKey(after.outgoing, n) /\ Get(after.outgoing, n) = << >>
                         /\ HasKey(after.incoming, n) /\ Get(after.incoming, n) = << >>
      ]_vars

\* The last call raised for an edge already in the network, and the end
\* node of its segment is the newest key, with no edge to or from it.
C39_Witness ==
    /\ call.op = "_add_segment"
    /\ call.error = DuplicateEdge
    /\ road_network.outgoing # << >>
    /\ Last(road_network.outgoing) = <<call.segment[2], << >> >>
    /\ Last(road_network.incoming) = <<call.segment[2], << >> >>

\* The number of places of the list that hold the item.
CountOf(list, item) == Cardinality({k \in 1..Len(list) : list[k] = item})

\* C32: the outgoing and the incoming mapping have the same keys, each key
\* once, and every node B is listed in outgoing[A] as often as A is listed
\* in incoming[B]; this holds after every _add_segment and after
\* _upscale_road_network.
C32_MappingsConsistent ==
    LET outgoing == road_network.outgoing
        incoming == road_network.incoming
        keys == Range(KeysOf(outgoing))
    IN /\ Range(KeysOf(incoming)) = keys
       /\ Len(outgoing) = Cardinality(keys)
       /\ Len(incoming) = Cardinality(keys)
       /\ \A A \in keys :
             /\ \A e \in 1..Len(Get(outgoing, A)) : Get(outgoing, A)[e][2] \in keys
             /\ \A e \in 1..Len(Get(incoming, A)) : Get(incoming, A)[e] \in keys
       /\ \A A, B \in keys :
             Cardinality({e \in 1..Len(Get(outgoing, A)) : Get(outgoing, A)[e][2] = B})
                 = CountOf(Get(incoming, B), A)

\* A generated network was scaled by two, and one of its nodes, away from
\* the origin, has two incoming edges.
C32_Witness ==
    /\ call.op = "RandomRoadNetwork"
    /\ call.state = "Validating"
    /\ call.scalar = 2
    /\ \E k \in 1..Len(road_network.incoming) :
          /\ Len(road_network.incoming[k][2]) = 2
          /\ road_network.incoming[k][1] # <<0, 0>>

\* C34: while RandomRoadNetwork generates and afterwards, every node of the
\* network has an incoming and an outgoing edge, or one outgoing edge and
\* no incoming edge, or one incoming edge and no outgoing edge; an accepted
\* network passes search_for_invalid_intersections with its gates.
C34_NoDeadEnd ==
    call.op = "RandomRoadNetwork" =>
        /\ \A node \in NodesOf(road_network) :
              LET into == InEdges(road_network, node)
                  out == OutEdges(road_network, node)
              IN \/ into >= 1 /\ out >= 1
                 \/ out = 1 /\ into = 0
                 \/ into = 1 /\ out = 0
        /\ call.state = "Accepted" =>
              search_for_invalid_intersections(road_network) = ""

\* An accepted network with a node that has two incoming edges and one
\* outgoing edge, and a node that has two outgoing edges.
C34_Witness ==
    /\ call.op = "RandomRoadNetwork"
    /\ call.state = "Accepted"
    /\ \E node \in NodesOf(road_network) :
          InEdges(road_network, node) = 2 /\ OutEdges(road_network, node) = 1
    /\ \E node \in NodesOf(road_network) : OutEdges(road_network, node) = 2

\* C35: in every network RandomRoadNetwork builds no node lies strictly
\* inside a segment, no two segments of one line overlap, no horizontal and
\* vertical segment meet other than at a common endpoint, no blocked node
\* lies inside two segments, _add_segment never raises, and the overlap and
\* crossing checks of CustomRoadNetwork accept the network's segments.
C35_NoConflict ==
    call.op = "RandomRoadNetwork" =>
        LET segments == convert_to_segments(road_network)
            sorted == sort_by_direction(segments, << >>, << >>)
            horizontal == Range(sorted.horizontal_lines)
            vertical == Range(sorted.vertical_lines)
        IN /\ call.error \in {"", "Total segments must be a positive integer",
                              "IndexError", "Insufficient entry or exit gates",
                              Unreachable}
           /\ Len(segments) = Cardinality(Range(segments))
           /\ \A segment \in Range(segments) :
                 \A node \in NodesOf(road_network) : ~StrictlyBetween(node, segment)
           /\ \A a, b \in horizontal : a # b => ~Overlapping(a, b, "horizontal")
           /\ \A a, b \in vertical : a # b => ~Overlapping(a, b, "vertical")
           /\ \A h \in horizontal : \A v \in vertical : ~BadTouch(h, v)
           /\ call.state = "Generating" =>
                 \A node \in road_network.blocked_nodes :
                     Cardinality({segment \in Range(segments) :
                                      StrictlyBetween(node, segment)}) <= 1
           /\ sorted.error = ""
           /\ check_adjacent_overlap(sorted.vertical_lines, "vertical") = ""
           /\ check_adjacent_overlap(sorted.horizontal_lines, "horizontal") = ""
           /\ check_intersections(sorted.horizontal_lines, sorted.vertical_lines) = ""

\* During generation a segment of length two lies over a blocked node, and
\* another segment ends on one of its end nodes at a right angle.
C35_Witness ==
    /\ call.op = "RandomRoadNetwork"
    /\ call.state = "Generating"
    /\ \E long, other \in Range(convert_to_segments(road_network)) :
          /\ NormSq(Sub(long[2], long[1])) = 4
          /\ \E node \in road_network.blocked_nodes : StrictlyBetween(node, long)
          /\ other # long
          /\ {other[1], other[2]} \cap {long[1], long[2]} # {}
          /\ (other[1][1] = other[2][1]) # (long[1][1] = long[2][1])

\* C33: a constructed MapManager has one road per edge of the graph, in the
\* order of the graph, and one intersection per node; the incoming roads of
\* an intersection are the roads that end on its node and its outgoing roads
\* the roads that start on it, each once and in the order of
\* MapManager.roads; every road's connected intersection is the one on its
\* end node; a road has an entry exactly when its start node is in the
\* entry gates given, an exit exactly when its end node is in the exit
\* gates given, and entry_roads, the list generate_cars goes through, holds
\* the roads with an entry, each once.
C33_EngineWiring ==
    (call.op = "MapManager" /\ call.error = "") =>
        LET network == call.road_network
            edges == Flatten([k \in 1..Len(network) |->
                         [e \in 1..Len(network[k][2]) |->
                             <<network[k][1], network[k][2][e][2]>>]])
        IN /\ Len(roads) = Len(edges)
           /\ \A r \in 1..Len(roads) :
                 /\ <<roads[r].startnode, roads[r].endnode>> = edges[r]
                 /\ roads[r].has_entry <=> roads[r].startnode \in call.entry_gates
                 /\ roads[r].has_exit <=> roads[r].endnode \in call.exit_gates
                 /\ roads[r].cars = << >>
                 /\ call.connected_intersection[r] # 0
                 /\ call.intersections[call.connected_intersection[r]].position
                        = roads[r].endnode
                 /\ connected_intersection(roads[r])
                        = call.intersections[call.connected_intersection[r]].position
           /\ Len(call.intersections) = Len(network)
           /\ \A i \in 1..Len(network) :
                 LET intersection == call.intersections[i]
                 IN /\ intersection.position = network[i][1]
                    /\ intersection.incoming_roads
                           = Ascending({r \in 1..Len(roads) :
                                            roads[r].endnode = intersection.position})
                    /\ intersection.outgoing_roads
                           = Ascending({r \in 1..Len(roads) :
                                            roads[r].startnode = intersection.position})
                    /\ intersection.incoming_roads
                           = incoming_roads(roads, intersection.position)
                    /\ intersection.outgoing_roads
                           = outgoing_roads(roads, intersection.position)
           /\ call.entry_roads = Ascending({r \in 1..Len(roads) : roads[r].has_entry})
           /\ call.entry_roads = entry_roads(roads)

\* The engine of the merge network with the gates of _generate_gates: the
\* intersection on the junction has two incoming roads and one outgoing
\* road, and two roads have an entry.
C33_Witness ==
    /\ call.op = "MapManager"
    /\ call.error = ""
    /\ call.road_network = merge_network
    /\ call.entry_gates = entry_gates(merge_network)
    /\ Len(call.entry_roads) = 2
    /\ \E i \in 1..Len(call.intersections) :
          /\ Len(call.intersections[i].incoming_roads) = 2
          /\ Len(call.intersections[i].outgoing_roads) = 1

\* C40: on a network of one road from an entry gate to an exit gate, with
\* update_car called again and again, every car that is in the queue is
\* eventually out of it, whatever the spawns are; so no car stays on the
\* road, the stop line or the end node for ever.
C40_Progress ==
    \A id \in 1..MaxSpawned :
        (id \in IdsQueued(roads)) ~> (id \notin IdsQueued(roads))

\* The last car of a run drove onto the end node in the last tick and left
\* the road empty.
C40_Witness ==
    /\ generation_count = MaxSpawned + 1
    /\ \E m \in moved :
          /\ m.ID = MaxSpawned
          /\ m.at_end
          /\ m.from # m.to
          /\ roads[m.road].has_exit
    /\ IdsQueued(roads) = {}

====
